---------------------------- MODULE Spec2Model ----------------------------
(***************************************************************************)
(* A model of the intent-resolution and query-routing core of the IPECD    *)
(* statistics chatbot: the menu tree (menu_tree.py), the query router      *)
(* (query_router.py), the learned-answer memory (learning_memory.py) and   *)
(* the per-turn orchestration of the chat endpoint (api.py).               *)
(*                                                                         *)
(* Texts are sequences of one-character tokens.  A token is a string: an   *)
(* ASCII character stands for itself; a character outside ASCII is written *)
(* as an ASCII token of its own ("a'" is a-acute, "n~" is n-tilde, "<nl>"  *)
(* is the line feed, "<chart>" an emoji, ...), so that every comparison    *)
(* the code makes on characters (case, accents, punctuation, white space)  *)
(* is made on distinct values here.                                        *)
(***************************************************************************)
EXTENDS Integers, Sequences, FiniteSets, TLC

VARIABLES
    menu_tree,      \* a MenuTree: [nodes (in dict insertion order), root_node_id]
    menu_call,      \* the last MenuTree call made and what it returned
    sim_call,       \* the last _calculate_similarity call and its score
    route_call,     \* the last QueryRouter call: its query, the database it ran
                    \* on, the executor calls it made and what it returned
    chat,           \* the chat endpoint: the process's globals, one session's
                    \* state and what the last turn ran and answered
    norm_call,      \* the last _normalize_text call and what it returned
    learn_call,     \* the last LearningMemory.learn call: the table before and after
    classifier,     \* the global LLMIntentClassifier: its cache and the calls made
    llm_call,       \* one LLM step of the endpoint: the requests sent and the answer
    load_call,      \* one MenuTree.load_menu: the file read, the tree, the file written
    http_call,      \* one request to /api/chat and the HTTP response to it
    sessions        \* the process with several sessions: the menu file, each
                    \* session's state, and the turns being handled

menu_vars == <<menu_tree, menu_call>>
sim_vars == <<sim_call>>
router_vars == <<route_call>>
chat_vars == <<chat, sessions>>
unit_vars == <<norm_call, learn_call, classifier, llm_call, load_call, http_call>>
vars ==
    <<menu_tree, menu_call, sim_call, route_call, chat, norm_call, learn_call, classifier,
      llm_call, load_call, http_call, sessions>>

\* the value of a variable of a component that is not exercised
Idle == [op |-> "none"]

-----------------------------------------------------------------------------
(* Characters and the str methods the code uses.                           *)

WS == {" ", "<nl>", "<tab>"}

UpperChars ==
    <<"A","B","C","D","E","F","G","H","I","J","K","L","M","N","O","P","Q","R","S","T",
      "U","V","W","X","Y","Z","A'","E'","I'","O'","U'","N~">>

LowerChars ==
    <<"a","b","c","d","e","f","g","h","i","j","k","l","m","n","o","p","q","r","s","t",
      "u","v","w","x","y","z","a'","e'","i'","o'","u'","n~">>

Digits == {"0","1","2","3","4","5","6","7","8","9"}

\* Characters str.isdigit() accepts that int() rejects (superscript two).
OtherDigits == {"<sup2>"}

\* \w of the re module: letters, digits (of any script) and the underscore.
WordChars ==
    {UpperChars[i] : i \in 1..Len(UpperChars)} \cup {LowerChars[i] : i \in 1..Len(LowerChars)}
        \cup Digits \cup OtherDigits \cup {"u:", "_", "<info>"}

IsWordChar(c) == c \in WordChars

\* the lower-case letter of each upper-case letter
LowerOf ==
    [c \in {UpperChars[i] : i \in 1..Len(UpperChars)} |->
        LowerChars[CHOOSE i \in 1..Len(UpperChars) : UpperChars[i] = c]]

LowerChar(c) == IF c \in DOMAIN LowerOf THEN LowerOf[c] ELSE c

\* str.lower()
Lower(s) == [i \in 1..Len(s) |-> LowerChar(s[i])]

SetMin(S) == CHOOSE x \in S : \A y \in S : x <= y
SetMax(S) == CHOOSE x \in S : \A y \in S : x >= y

\* str.strip()
Strip(s) ==
    LET first == CHOOSE i \in 1..Len(s) : s[i] \notin WS /\ \A j \in 1..(i - 1) : s[j] \in WS
        last == CHOOSE i \in 1..Len(s) : s[i] \notin WS /\ \A j \in (i + 1)..Len(s) : s[j] \in WS
    IN  IF \A i \in 1..Len(s) : s[i] \in WS THEN <<>> ELSE SubSeq(s, first, last)

\* sub occurs in s at position i
OccursAt(s, i, sub) ==
    /\ i >= 1
    /\ i + Len(sub) - 1 <= Len(s)
    /\ \A k \in 1..Len(sub) : s[i + k - 1] = sub[k]

\* sub in s
Contains(s, sub) == \E i \in 1..(Len(s) - Len(sub) + 1) : OccursAt(s, i, sub)

StartsWith(s, sub) == OccursAt(s, 1, sub)
EndsWith(s, sub) == Len(sub) <= Len(s) /\ OccursAt(s, Len(s) - Len(sub) + 1, sub)

\* str.split(): the maximal runs of non-white-space characters, in order
WordStarts(s) == {i \in 1..Len(s) : s[i] \notin WS /\ (i = 1 \/ s[i - 1] \in WS)}
WordEnd(s, i) == SetMin({j \in i..Len(s) : j = Len(s) \/ s[j + 1] \in WS})
Split(s) ==
    LET st == WordStarts(s)
        nth(n) == CHOOSE i \in st : Cardinality({j \in st : j < i}) = n - 1
    IN  [n \in 1..Cardinality(st) |-> SubSeq(s, nth(n), WordEnd(s, nth(n)))]
Words(s) == {SubSeq(s, i, WordEnd(s, i)) : i \in WordStarts(s)}

\* re.sub(r'[^\w\s]', '', s)
IsWordOrSpace(c) == c \in WordChars \/ c \in WS
DropPunct(s) == SelectSeq(s, IsWordOrSpace)

\* the decimal digits of a positive integer, as str(n) / the f-string gives them
DigitOf(d) == CHOOSE c \in Digits : c = ToString(d)
RECURSIVE Str(_)
Str(n) == IF n < 10 THEN <<DigitOf(n)>> ELSE Str(n \div 10) \o <<DigitOf(n % 10)>>

\* "\n".join(parts)
RECURSIVE Join(_, _)
Join(parts, sep) ==
    IF parts = <<>> THEN <<>>
    ELSE IF Len(parts) = 1 THEN parts[1]
    ELSE parts[1] \o sep \o Join(Tail(parts), sep)

-----------------------------------------------------------------------------
(* MenuNode and MenuTree (menu_tree.py).                                    *)

\* None, where the code holds an Optional[str]
NoneId == <<"<None>">>

\* node ids and action tags the code names
root == <<"r","o","o","t">>
ayuda == <<"a","y","u","d","a">>
economico == <<"e","c","o","n","o","m","i","c","o">>
socio == <<"s","o","c","i","o">>
general == <<"g","e","n","e","r","a","l">>

\* MenuNode.__init__: action defaults to "menu", the lists to [].  bad_desc
\* says that the persisted record held a truthy value that is no string as
\* description (from_dict checks no type).
MenuNode(id, title, description, action, children, keywords, db_query, tool, info_text) ==
    [id |-> id, title |-> title, description |-> description, action |-> action,
     children |-> children, keywords |-> keywords, db_query |-> db_query,
     tool |-> tool, info_text |-> info_text, bad_desc |-> FALSE]

\* the Optional[MenuNode] None
NoNode == MenuNode(NoneId, <<>>, <<>>, "none", <<>>, <<>>, <<>>, "", <<>>)

NodeIds(ns) == {ns[i].id : i \in 1..Len(ns)}

\* dict.get on a node map
Lookup(ns, node_id) ==
    IF \E i \in 1..Len(ns) : ns[i].id = node_id
    THEN ns[CHOOSE i \in 1..Len(ns) : ns[i].id = node_id]
    ELSE NoNode

\* self.nodes.get(node_id)
get_node(self, node_id) == Lookup(self.nodes, node_id)

get_root(self) ==
    IF self.root_node_id # NoneId /\ self.root_node_id # <<>>
    THEN get_node(self, self.root_node_id)
    ELSE NoNode

DefaultMenuText ==
    <<"1","."," ","<chart>"," ","D","a","t","o","s"," ","E","c","o","n","o'","m","i","c","o",
      "s","<nl>","2","."," ","<people>"," ","D","a","t","o","s"," ","S","o","c","i","a","l",
      "e","s","<nl>","3","."," ","<info>","<vs16>"," ","I","n","f","o","r","m","a","c","i",
      "o'","n"," ","G","e","n","e","r","a","l">>

NoOptionsText ==
    <<"<cross>"," ","N","o"," ","h","a","y"," ","o","p","c","i","o","n","e","s"," ","d","i","s",
      "p","o","n","i","b","l","e","s"," ","e","n"," ","e","s","t","e"," ","m","e","n","u'",
      ".">>

\* the head of the help page _get_info_content returns for "ayuda" (its first
\* lines; the page is a constant of the code and is never empty)
AyudaText ==
    <<"<nl>","<bar>","<bar>","<bar>","<nl>"," "," ","<book>"," ","C","O'","M","O"," ","U","S",
      "A","R"," ","E","L"," ","C","H","A","T","B","O","T","<nl>","<bar>","<bar>","<bar>",
      "<nl>">>

_get_info_content(node_id) == IF node_id = ayuda THEN AyudaText ELSE <<>>

SearchingPrefix ==
    <<"<lens>"," ","B","u","s","c","a","n","d","o"," ","i","n","f","o","r","m","a","c","i",
      "o'","n"," ","s","o","b","r","e",":"," ">>

DescPrefix == <<" "," "," ","<corner>","<dash>"," ">>

TechTerms ==
    {<<"b","a","s","e"," ","d","e"," ","d","a","t","o","s">>, <<"t","a","b","l","a">>,
     <<"d","a","t","a","l","a","k","e">>, <<"d","w","h">>}

\* list(dict.fromkeys(children)): first occurrences, in order
Dedup(seq) ==
    LET first == {i \in 1..Len(seq) : \A j \in 1..(i - 1) : seq[j] # seq[i]}
        nth(n) == CHOOSE i \in first : Cardinality({j \in first : j < i}) = n - 1
    IN  [n \in 1..Cardinality(first) |-> seq[nth(n)]]

\* the children format_menu numbers: unique, and resolving to a node
valid_children(self, node) ==
    SelectSeq(Dedup(node.children), LAMBDA c : get_node(self, c) # NoNode)

\* the lines format_menu writes for options i, i+1, ...
RECURSIVE MenuLines(_, _, _)
MenuLines(self, valid, i) ==
    IF i > Len(valid) THEN <<>>
    ELSE LET child == get_node(self, valid[i])
             shown == child.description # <<>>
                        /\ ~ \E t \in TechTerms : Contains(Lower(child.description), t)
         IN  Str(i) \o <<".", " ">> \o child.title \o <<"<nl>">>
               \o (IF shown THEN DescPrefix \o child.description \o <<"<nl>">> ELSE <<>>)
               \o MenuLines(self, valid, i + 1)

\* format_menu raises inside its try block when a listed child's description
\* is a truthy non-string (child.description.lower() has no such attribute)
FormatRaises(self, node) ==
    LET valid == valid_children(self, node)
    IN  /\ node.children # <<>>
        /\ \E i \in 1..Len(valid) : get_node(self, valid[i]).bad_desc

\* format_node without "try the first available node"
format_node_strict(self, node_id) == get_node(self, node_id)

\* the node format_menu renders: the requested one, else the first of the dict
format_node(self, node_id) ==
    LET direct == get_node(self, node_id)
    IN  IF direct # NoNode THEN direct
        ELSE IF self.nodes # <<>> THEN get_node(self, self.nodes[1].id)
        ELSE NoNode

\* the id format_menu works on: None means the root, a falsy root means "root"
format_id(self, node_id) ==
    LET nid0 == IF node_id = NoneId THEN self.root_node_id ELSE node_id
    IN  IF nid0 = NoneId \/ nid0 = <<>> THEN root ELSE nid0

\* the result returned as it is, empty or not
unvalidated_result(result) == result

\* "validate that the result is not empty": the default menu replaces it
validated_result(result) == IF result = <<>> THEN DefaultMenuText ELSE result

\* the text format_menu builds for a node before it strips and validates it
menu_text(self, nid, node) ==
    IF node.children # <<>> THEN MenuLines(self, valid_children(self, node), 1)
    ELSE IF node.action = "info" THEN _get_info_content(nid)
    ELSE IF node.action = "query" THEN SearchingPrefix \o node.title
    ELSE <<>>

\* format_menu once the node to render is known
format_found(self, nid, node) ==
    IF node = NoNode THEN DefaultMenuText
    ELSE IF FormatRaises(self, node) THEN DefaultMenuText
    ELSE IF node.children # <<>> /\ valid_children(self, node) = <<>> THEN NoOptionsText
    ELSE validated_result(Strip(menu_text(self, nid, node)))

format_menu(self, node_id) ==
    format_found(self, format_id(self, node_id), format_node(self, format_id(self, node_id)))

\* get_child_by_number with the lower bound of its range check one too low:
\* children[number - 1] at number 0 is Python's children[-1], the last child
get_child_from_zero(self, node_id, number) ==
    LET node == get_node(self, node_id)
    IN  IF node = NoNode \/ node.children = <<>> THEN NoNode
        ELSE IF 0 <= number /\ number <= Len(node.children)
             THEN get_node(self, node.children[IF number = 0 THEN Len(node.children)
                                                ELSE number])
             ELSE NoNode

get_child_by_number(self, node_id, number) ==
    LET node == get_node(self, node_id)
    IN  IF node = NoNode \/ node.children = <<>> THEN NoNode
        ELSE IF 1 <= number /\ number <= Len(node.children)
             THEN get_node(self, node.children[number])
             ELSE NoNode

-----------------------------------------------------------------------------
(* LearningMemory (learning_memory.py): normalisation and similarity.        *)

STOP_WORDS ==
    {<<"q","u","e">>, <<"e","s">>, <<"e","l">>, <<"l","a">>, <<"l","o","s">>,
     <<"l","a","s">>, <<"u","n">>, <<"u","n","a">>, <<"d","e">>, <<"d","e","l">>,
     <<"a","l">>, <<"e","n">>, <<"p","o","r">>, <<"p","a","r","a">>, <<"c","o","n">>,
     <<"s","i","n">>, <<"s","o","b","r","e">>, <<"e","n","t","r","e">>, <<"c","o","m","o">>,
     <<"c","u","a","l">>, <<"d","o","n","d","e">>, <<"c","u","a","n","d","o">>,
     <<"q","u","i","e","n">>, <<"c","u","a","n","t","o">>, <<"m","e">>, <<"t","e">>,
     <<"s","e">>, <<"n","o","s">>, <<"l","e","s">>, <<"l","o">>, <<"l","e">>, <<"y">>,
     <<"o">>, <<"a">>, <<"e">>, <<"u">>, <<"p","e","r","o">>, <<"s","i">>, <<"n","o">>,
     <<"m","a","s">>, <<"m","u","y">>, <<"t","a","n">>, <<"e","s","t","e">>,
     <<"e","s","t","a">>, <<"e","s","t","o","s">>, <<"e","s","t","a","s">>, <<"e","s","e">>,
     <<"e","s","a">>, <<"e","s","o","s">>, <<"e","s","a","s">>, <<"a","q","u","e","l">>,
     <<"a","q","u","e","l","l","a">>, <<"s","u">>, <<"s","u","s">>, <<"m","i">>, <<"t","u">>,
     <<"s","e","r">>, <<"e","s","t","a","r">>, <<"t","i","e","n","e">>,
     <<"s","i","g","n","i","f","i","c","a">>, <<"q","u","i","e","r","e">>,
     <<"d","e","c","i","r">>, <<"d","a","m","e">>, <<"d","i","m","e">>,
     <<"m","o","s","t","r","a","r">>}

KEY_TERMS ==
    {<<"i","p","c">>, <<"e","p","h">>, <<"e","c","v">>, <<"e","m","a","e">>,
     <<"s","i","p","a">>, <<"o","e","d","e">>, <<"r","i","p","t","e">>, <<"p","b","g">>,
     <<"i","p","i">>, <<"d","o","l","a","r">>, <<"b","l","u","e">>, <<"m","e","p">>,
     <<"c","c","l">>, <<"o","f","i","c","i","a","l">>, <<"c","e","n","s","o">>,
     <<"c","a","n","a","s","t","a">>, <<"b","a","s","i","c","a">>,
     <<"e","m","p","l","e","o">>, <<"d","e","s","e","m","p","l","e","o">>,
     <<"i","n","f","l","a","c","i","o","n">>, <<"p","r","e","c","i","o","s">>,
     <<"s","a","l","a","r","i","o">>, <<"s","e","m","a","f","o","r","o">>}

\* the longest normalized question kept (text[:500])
NormLimit == 500

\* re.sub(r'\s+', ' ', s): each run of white space becomes one space
CollapseWS(s) ==
    LET keep == {i \in 1..Len(s) : s[i] \notin WS \/ i = 1 \/ s[i - 1] \notin WS}
        nth(n) == CHOOSE i \in keep : Cardinality({j \in keep : j < i}) = n - 1
    IN  [n \in 1..Cardinality(keep) |-> IF s[nth(n)] \in WS THEN " " ELSE s[nth(n)]]

\* the replacements table of _normalize_text
Unaccent(c) ==
    CASE c = "a'" -> "a" [] c = "e'" -> "e" [] c = "i'" -> "i" [] c = "o'" -> "o"
      [] c = "u'" -> "u" [] c = "n~" -> "n" [] c = "u:" -> "u" [] OTHER -> c

Truncate(s, n) == IF Len(s) <= n THEN s ELSE SubSeq(s, 1, n)

UnaccentAll(s) == [i \in 1..Len(s) |-> Unaccent(s[i])]

_normalize_text(text) ==
    Truncate(UnaccentAll(CollapseWS(DropPunct(Strip(Lower(text))))), NormLimit)

\* the length of the block that starts at a[i] and b[j] inside the windows
RECURSIVE BlockLen(_, _, _, _, _, _)
BlockLen(a, i, ahi, b, j, bhi) ==
    IF i > ahi \/ j > bhi THEN 0
    ELSE IF a[i] # b[j] THEN 0
    ELSE 1 + BlockLen(a, i + 1, ahi, b, j + 1, bhi)

\* difflib.SequenceMatcher.find_longest_match without junk: the longest block
\* a[i..i+k-1] = b[j..j+k-1] inside the two windows, the earliest in a and,
\* among those, the earliest in b; <<alo, blo, 0>> when nothing matches
find_longest_match(a, alo, ahi, b, blo, bhi) ==
    LET starts == {<<i, j>> \in (alo..ahi) \X (blo..bhi) : a[i] = b[j]}
        blocks == {<<x[1], x[2], BlockLen(a, x[1], ahi, b, x[2], bhi)>> : x \in starts}
        best == CHOOSE x \in blocks : \A y \in blocks :
                    \/ x[3] > y[3]
                    \/ x[3] = y[3] /\ x[1] < y[1]
                    \/ x[3] = y[3] /\ x[1] = y[1] /\ x[2] <= y[2]
    IN  IF starts = {} THEN <<alo, blo, 0>> ELSE best

\* the total size of get_matching_blocks() on the two windows
RECURSIVE MatchSize(_, _, _, _, _, _)
MatchSize(a, alo, ahi, b, blo, bhi) ==
    IF alo > ahi \/ blo > bhi THEN 0
    ELSE LET m == find_longest_match(a, alo, ahi, b, blo, bhi)
         IN  IF m[3] = 0 THEN 0
             ELSE m[3] + MatchSize(a, alo, m[1] - 1, b, blo, m[2] - 1)
                       + MatchSize(a, m[1] + m[3], ahi, b, m[2] + m[3], bhi)

\* a float as an exact fraction <<numerator, denominator>>
Frac(n, d) == <<n, d>>
FracIsZero(x) == x[1] = 0
FracLess(x, y) == x[1] * y[2] < y[1] * x[2]
FracEq(x, y) == x[1] * y[2] = y[1] * x[2]

\* SequenceMatcher(None, a, b).ratio(): 2.0 * matches / length, 1.0 for two
\* empty sequences
ratio(a, b) ==
    IF Len(a) + Len(b) = 0 THEN Frac(1, 1)
    ELSE Frac(2 * MatchSize(a, 1, Len(a), b, 1, Len(b)), Len(a) + Len(b))

Max2(x, y) == IF x >= y THEN x ELSE y

\* without the veto, the next test of the code answers 0.3 to such a pair
veto_dropped(key_words1, key_words2) == Frac(3, 10)

\* the answer of _calculate_similarity to two key-term sets that are both
\* non-empty and differ
key_term_veto(key_words1, key_words2) == Frac(0, 1)


\* min(1.0, content * 0.5 + seq * 0.2 + key_bonus), content being common / most:
\* as a fraction over 10 * most * seq[2]
combined_similarity(common, most, key_bonus, seq) ==
    LET num == 5 * common * seq[2] + 2 * seq[1] * most + key_bonus * most * seq[2]
        den == 10 * most * seq[2]
    IN  IF num > den THEN Frac(1, 1) ELSE Frac(num, den)

\* the similarity of two texts whose key terms do not set them apart
content_similarity(content_words1, content_words2, key_bonus, seq) ==
    IF content_words1 = {} \/ content_words2 = {}
    THEN Frac(seq[1], 2 * seq[2])
    ELSE combined_similarity(Cardinality(content_words1 \cap content_words2),
                             Max2(Cardinality(content_words1), Cardinality(content_words2)),
                             key_bonus, seq)

\* the checks on the key terms of the two texts
key_term_similarity(key_words1, key_words2, content_words1, content_words2, seq) ==
    IF key_words1 # {} /\ key_words2 # {} /\ key_words1 # key_words2
    THEN key_term_veto(key_words1, key_words2)
    ELSE IF (key_words1 # {} \/ key_words2 # {}) /\ key_words1 # key_words2
    THEN Frac(3, 10)
    ELSE content_similarity(content_words1, content_words2,
                            IF key_words1 # {} /\ key_words1 = key_words2 THEN 3 ELSE 0, seq)

word_similarity(words1, words2, seq) ==
    key_term_similarity(words1 \cap KEY_TERMS, words2 \cap KEY_TERMS,
                        words1 \ STOP_WORDS, words2 \ STOP_WORDS, seq)

normalized_similarity(norm1, norm2) ==
    word_similarity(Words(norm1), Words(norm2), ratio(norm1, norm2))

_calculate_similarity(text1, text2) ==
    normalized_similarity(_normalize_text(text1), _normalize_text(text2))

-----------------------------------------------------------------------------
(* QueryRouter (query_router.py) and ToolExecutor (tool_executor.py).        *)

\* one entry of TOOL_MAPPINGS; param_name "<None>" is None, param_values is
\* the list of (keyword, value) items of the dict, empty when there is none
ToolConfig(name, keywords, param_name, param_values, description) ==
    [name |-> name, keywords |-> keywords, param_name |-> param_name,
     param_values |-> param_values, description |-> description]

\* TOOL_MAPPINGS, in the order of the dict
TOOL_MAPPINGS ==
    <<
      ToolConfig("get_censo",
            <<<<"p","o","b","l","a","c","i","o","n">>,
              <<"p","o","b","l","a","c","i","o'","n">>,
              <<"h","a","b","i","t","a","n","t","e","s">>, <<"c","e","n","s","o">>,
              <<"g","e","n","t","e">>, <<"p","e","r","s","o","n","a","s">>,
              <<"d","e","m","o","g","r","a","f","i'","a">>,
              <<"d","e","m","o","g","r","a","f","i","c","o">>>>,
            "municipio",
            <<>>,
            <<"d","a","t","o","s"," ","d","e"," ","p","o","b","l","a","c","i","o'","n">>),
      ToolConfig("get_dolar",
            <<<<"d","o","l","a","r">>, <<"d","o'","l","a","r">>,
              <<"c","o","t","i","z","a","c","i","o","n">>,
              <<"c","o","t","i","z","a","c","i","o'","n">>, <<"b","l","u","e">>,
              <<"o","f","i","c","i","a","l">>, <<"m","e","p">>, <<"c","c","l">>,
              <<"t","i","p","o"," ","d","e"," ","c","a","m","b","i","o">>>>,
            "tipo",
            <<<<<<"b","l","u","e">>, <<"b","l","u","e">>>>,
              <<<<"o","f","i","c","i","a","l">>, <<"o","f","i","c","i","a","l">>>>,
              <<<<"m","e","p">>, <<"m","e","p">>>>, <<<<"c","c","l">>, <<"c","c","l">>>>>>,
            <<"c","o","t","i","z","a","c","i","o'","n"," ","d","e","l"," ","d","o'","l","a","r">>),
      ToolConfig("get_ipc",
            <<<<"i","p","c">>, <<"i","n","f","l","a","c","i","o","n">>,
              <<"i","n","f","l","a","c","i","o'","n">>, <<"p","r","e","c","i","o","s">>,
              <<"i","n","d","i","c","e"," ","d","e"," ","p","r","e","c","i","o","s">>,
              <<"i'","n","d","i","c","e"," ","d","e"," ","p","r","e","c","i","o","s">>>>,
            "region",
            <<>>,
            <<"i'","n","d","i","c","e"," ","d","e"," ","p","r","e","c","i","o","s"," ","a","l"," ","c","o","n","s","u","m","i","d","o","r">>),
      ToolConfig("get_empleo",
            <<<<"e","m","p","l","e","o">>, <<"d","e","s","e","m","p","l","e","o">>,
              <<"t","r","a","b","a","j","o">>, <<"o","c","u","p","a","c","i","o","n">>,
              <<"o","c","u","p","a","c","i","o'","n">>,
              <<"t","a","s","a"," ","d","e"," ","e","m","p","l","e","o">>, <<"e","p","h">>,
              <<"a","c","t","i","v","i","d","a","d">>>>,
            "provincia",
            <<>>,
            <<"t","a","s","a","s"," ","d","e"," ","e","m","p","l","e","o"," ","y"," ","d","e","s","e","m","p","l","e","o">>),
      ToolConfig("get_semaforo",
            <<<<"s","e","m","a","f","o","r","o">>, <<"s","e","m","a'","f","o","r","o">>,
              <<"i","n","d","i","c","a","d","o","r","e","s"," ","e","c","o","n","o","m","i","c","o","s">>,
              <<"i","n","d","i","c","a","d","o","r","e","s"," ","e","c","o","n","o'","m","i","c","o","s">>,
              <<"v","a","r","i","a","c","i","o","n">>,
              <<"v","a","r","i","a","c","i","o'","n">>>>,
            "tipo",
            <<<<<<"i","n","t","e","r","a","n","u","a","l">>, <<"i","n","t","e","r","a","n","u","a","l">>>>,
              <<<<"m","e","n","s","u","a","l">>, <<"i","n","t","e","r","m","e","n","s","u","a","l">>>>>>,
            <<"s","e","m","a'","f","o","r","o"," ","e","c","o","n","o'","m","i","c","o">>),
      ToolConfig("get_patentamientos",
            <<<<"p","a","t","e","n","t","a","m","i","e","n","t","o">>,
              <<"p","a","t","e","n","t","a","m","i","e","n","t","o","s">>,
              <<"v","e","h","i","c","u","l","o","s">>,
              <<"v","e","h","i'","c","u","l","o","s">>, <<"a","u","t","o","s">>,
              <<"m","o","t","o","s">>, <<"0","k","m">>, <<"d","n","r","p","a">>>>,
            "provincia",
            <<>>,
            <<"p","a","t","e","n","t","a","m","i","e","n","t","o","s"," ","d","e"," ","v","e","h","i'","c","u","l","o","s">>),
      ToolConfig("get_aeropuertos",
            <<<<"a","e","r","o","p","u","e","r","t","o">>,
              <<"a","e","r","o","p","u","e","r","t","o","s">>, <<"v","u","e","l","o","s">>,
              <<"p","a","s","a","j","e","r","o","s"," ","a","e","r","e","o","s">>,
              <<"a","n","a","c">>, <<"a","v","i","a","c","i","o","n">>,
              <<"a","v","i","a","c","i","o'","n">>>>,
            "aeropuerto",
            <<>>,
            <<"p","a","s","a","j","e","r","o","s"," ","e","n"," ","a","e","r","o","p","u","e","r","t","o","s">>),
      ToolConfig("get_combustible",
            <<<<"c","o","m","b","u","s","t","i","b","l","e">>, <<"n","a","f","t","a">>,
              <<"g","a","s","o","i","l">>, <<"d","i","e","s","e","l">>, <<"g","a","s">>,
              <<"p","e","t","r","o","l","e","o">>, <<"p","e","t","r","o'","l","e","o">>,
              <<"v","e","n","t","a","s"," ","d","e"," ","c","o","m","b","u","s","t","i","b","l","e">>>>,
            "provincia",
            <<>>,
            <<"v","e","n","t","a","s"," ","d","e"," ","c","o","m","b","u","s","t","i","b","l","e">>),
      ToolConfig("get_canasta_basica",
            <<<<"c","a","n","a","s","t","a">>,
              <<"c","a","n","a","s","t","a"," ","b","a","s","i","c","a">>,
              <<"c","a","n","a","s","t","a"," ","b","a'","s","i","c","a">>,
              <<"a","l","i","m","e","n","t","o","s">>,
              <<"c","o","s","t","o"," ","d","e"," ","v","i","d","a">>>>,
            "<None>",
            <<>>,
            <<"c","a","n","a","s","t","a"," ","b","a'","s","i","c","a">>),
      ToolConfig("get_pobreza",
            <<<<"p","o","b","r","e","z","a">>, <<"i","n","d","i","g","e","n","c","i","a">>,
              <<"c","b","t">>, <<"c","b","a">>,
              <<"l","i","n","e","a"," ","d","e"," ","p","o","b","r","e","z","a">>,
              <<"l","i'","n","e","a"," ","d","e"," ","p","o","b","r","e","z","a">>>>,
            "region",
            <<>>,
            <<"l","i'","n","e","a","s"," ","d","e"," ","p","o","b","r","e","z","a"," ","e"," ","i","n","d","i","g","e","n","c","i","a">>),
      ToolConfig("get_ecv",
            <<<<"e","c","v">>,
              <<"e","n","c","u","e","s","t","a"," ","d","e"," ","c","a","l","i","d","a","d">>,
              <<"c","a","l","i","d","a","d"," ","d","e"," ","v","i","d","a">>,
              <<"c","o","n","d","i","c","i","o","n","e","s"," ","d","e"," ","v","i","d","a">>>>,
            "<None>",
            <<>>,
            <<"e","n","c","u","e","s","t","a"," ","d","e"," ","c","a","l","i","d","a","d"," ","d","e"," ","v","i","d","a">>),
      ToolConfig("get_oede",
            <<<<"o","e","d","e">>,
              <<"o","b","s","e","r","v","a","t","o","r","i","o"," ","d","e"," ","e","m","p","l","e","o">>,
              <<"d","i","n","a","m","i","c","a"," ","e","m","p","r","e","s","a","r","i","a","l">>,
              <<"d","i","n","a'","m","i","c","a"," ","e","m","p","r","e","s","a","r","i","a","l">>>>,
            "provincia",
            <<>>,
            <<"o","b","s","e","r","v","a","t","o","r","i","o"," ","d","e"," ","e","m","p","l","e","o">>),
      ToolConfig("get_emae",
            <<<<"e","m","a","e">>,
              <<"a","c","t","i","v","i","d","a","d"," ","e","c","o","n","o","m","i","c","a">>,
              <<"a","c","t","i","v","i","d","a","d"," ","e","c","o","n","o'","m","i","c","a">>,
              <<"e","s","t","i","m","a","d","o","r"," ","m","e","n","s","u","a","l">>,
              <<"p","b","i"," ","m","e","n","s","u","a","l">>>>,
            "categoria",
            <<>>,
            <<"a","c","t","i","v","i","d","a","d"," ","e","c","o","n","o'","m","i","c","a"," ","m","e","n","s","u","a","l">>),
      ToolConfig("get_pbg",
            <<<<"p","b","g">>, <<"p","r","o","d","u","c","t","o"," ","b","r","u","t","o">>,
              <<"p","b","i"," ","p","r","o","v","i","n","c","i","a","l">>,
              <<"p","r","o","d","u","c","c","i","o","n"," ","p","r","o","v","i","n","c","i","a","l">>,
              <<"p","r","o","d","u","c","c","i","o'","n"," ","p","r","o","v","i","n","c","i","a","l">>>>,
            "sector",
            <<>>,
            <<"p","r","o","d","u","c","t","o"," ","b","r","u","t","o"," ","g","e","o","g","r","a'","f","i","c","o">>),
      ToolConfig("get_salarios",
            <<<<"s","a","l","a","r","i","o">>, <<"s","a","l","a","r","i","o","s">>,
              <<"s","u","e","l","d","o">>, <<"s","u","e","l","d","o","s">>,
              <<"s","m","v","m">>, <<"m","i","n","i","m","o"," ","v","i","t","a","l">>,
              <<"m","i'","n","i","m","o"," ","v","i","t","a","l">>, <<"r","i","p","t","e">>,
              <<"r","e","m","u","n","e","r","a","c","i","o","n">>,
              <<"r","e","m","u","n","e","r","a","c","i","o'","n">>>>,
            "tipo",
            <<<<<<"s","m","v","m">>, <<"s","m","v","m">>>>,
              <<<<"m","i","n","i","m","o">>, <<"s","m","v","m">>>>,
              <<<<"m","i'","n","i","m","o">>, <<"s","m","v","m">>>>,
              <<<<"r","i","p","t","e">>, <<"r","i","p","t","e">>>>,
              <<<<"i","n","d","i","c","a","d","o","r","e","s">>, <<"i","n","d","i","c","a","d","o","r","e","s">>>>>>,
            <<"s","a","l","a","r","i","o","s"," ","e"," ","i'","n","d","i","c","e","s"," ","s","a","l","a","r","i","a","l","e","s">>),
      ToolConfig("get_supermercados",
            <<<<"s","u","p","e","r","m","e","r","c","a","d","o">>,
              <<"s","u","p","e","r","m","e","r","c","a","d","o","s">>,
              <<"a","u","t","o","s","e","r","v","i","c","i","o">>,
              <<"f","a","c","t","u","r","a","c","i","o","n"," ","s","u","p","e","r","m","e","r","c","a","d","o","s">>,
              <<"v","e","n","t","a","s"," ","m","i","n","o","r","i","s","t","a","s">>>>,
            "rubro",
            <<>>,
            <<"f","a","c","t","u","r","a","c","i","o'","n"," ","d","e"," ","s","u","p","e","r","m","e","r","c","a","d","o","s">>),
      ToolConfig("get_construccion",
            <<<<"c","o","n","s","t","r","u","c","c","i","o","n">>,
              <<"c","o","n","s","t","r","u","c","c","i","o'","n">>, <<"i","e","r","i","c">>,
              <<"o","b","r","a","s">>, <<"e","d","i","f","i","c","a","c","i","o","n">>,
              <<"e","d","i","f","i","c","a","c","i","o'","n">>>>,
            "tipo",
            <<<<<<"p","u","e","s","t","o","s">>, <<"p","u","e","s","t","o","s">>>>,
              <<<<"t","r","a","b","a","j","o">>, <<"p","u","e","s","t","o","s">>>>,
              <<<<"i","n","g","r","e","s","o","s">>, <<"i","n","g","r","e","s","o","s">>>>,
              <<<<"a","c","t","i","v","i","d","a","d">>, <<"a","c","t","i","v","i","d","a","d">>>>>>,
            <<"i","n","d","u","s","t","r","i","a"," ","d","e"," ","l","a"," ","c","o","n","s","t","r","u","c","c","i","o'","n">>),
      ToolConfig("get_ipc_corrientes",
            <<<<"i","p","c"," ","c","o","r","r","i","e","n","t","e","s">>,
              <<"i","p","i","c","o","r","r">>,
              <<"i","n","f","l","a","c","i","o","n"," ","c","o","r","r","i","e","n","t","e","s">>,
              <<"i","n","f","l","a","c","i","o'","n"," ","c","o","r","r","i","e","n","t","e","s">>,
              <<"p","r","e","c","i","o","s"," ","c","o","r","r","i","e","n","t","e","s">>>>,
            "<None>",
            <<>>,
            <<"I","P","C"," ","e","s","p","e","c","i'","f","i","c","o"," ","d","e"," ","C","o","r","r","i","e","n","t","e","s">>)
    >>

\* LOCATION_NAMES (a set: its iteration order is not fixed)
LOCATION_NAMES ==
    {<<"g","o","y","a">>, <<"c","o","r","r","i","e","n","t","e","s">>,
     <<"c","o","r","i","e","n","t","e","s">>, <<"c","o","r","r","i","e","n","t","r","s">>,
     <<"c","t","e","s">>,
     <<"p","a","s","o"," ","d","e"," ","l","o","s"," ","l","i","b","r","e","s">>,
     <<"m","e","r","c","e","d","e","s">>,
     <<"c","u","r","u","z","u'"," ","c","u","a","t","i","a'">>,
     <<"c","u","r","u","z","u"," ","c","u","a","t","i","a">>,
     <<"b","e","l","l","a"," ","v","i","s","t","a">>, <<"e","s","q","u","i","n","a">>,
     <<"m","o","n","t","e"," ","c","a","s","e","r","o","s">>,
     <<"s","a","n","t","o"," ","t","o","m","e'">>,
     <<"s","a","n","t","o"," ","t","o","m","e">>, <<"v","i","r","a","s","o","r","o">>,
     <<"i","t","u","z","a","i","n","g","o'">>, <<"i","t","u","z","a","i","n","g","o">>,
     <<"s","a","l","a","d","a","s">>, <<"e","m","p","e","d","r","a","d","o">>,
     <<"s","a","n"," ","r","o","q","u","e">>, <<"c","o","n","c","e","p","c","i","o'","n">>,
     <<"c","o","n","c","e","p","c","i","o","n">>, <<"l","a","v","a","l","l","e">>,
     <<"s","a","n","t","a"," ","l","u","c","i","a">>, <<"m","o","c","o","r","e","t","a'">>,
     <<"m","o","c","o","r","e","t","a">>, <<"a","l","v","e","a","r">>,
     <<"s","a","n"," ","c","o","s","m","e">>, <<"i","t","a","t","i'">>,
     <<"i","t","a","t","i">>, <<"b","u","e","n","o","s"," ","a","i","r","e","s">>,
     <<"b","s","a","s">>, <<"b","s"," ","a","s">>, <<"c","a","b","a">>,
     <<"c","a","p","i","t","a","l"," ","f","e","d","e","r","a","l">>,
     <<"c","o'","r","d","o","b","a">>, <<"c","o","r","d","o","b","a">>,
     <<"r","o","s","a","r","i","o">>, <<"m","e","n","d","o","z","a">>,
     <<"t","u","c","u","m","a'","n">>, <<"t","u","c","u","m","a","n">>,
     <<"s","a","n","t","a"," ","f","e">>, <<"s","a","l","t","a">>, <<"c","h","a","c","o">>,
     <<"m","i","s","i","o","n","e","s">>, <<"e","n","t","r","e"," ","r","i'","o","s">>,
     <<"e","n","t","r","e"," ","r","i","o","s">>, <<"f","o","r","m","o","s","a">>,
     <<"j","u","j","u","y">>, <<"s","a","n"," ","j","u","a","n">>,
     <<"s","a","n"," ","l","u","i","s">>, <<"l","a"," ","r","i","o","j","a">>,
     <<"c","a","t","a","m","a","r","c","a">>,
     <<"s","a","n","t","i","a","g","o"," ","d","e","l"," ","e","s","t","e","r","o">>,
     <<"n","e","u","q","u","e'","n">>, <<"n","e","u","q","u","e","n">>,
     <<"r","i'","o"," ","n","e","g","r","o">>, <<"r","i","o"," ","n","e","g","r","o">>,
     <<"c","h","u","b","u","t">>, <<"s","a","n","t","a"," ","c","r","u","z">>,
     <<"t","i","e","r","r","a"," ","d","e","l"," ","f","u","e","g","o">>,
     <<"l","a"," ","p","a","m","p","a">>, <<"c","a","p","i","t","a","l">>, <<"g","b","a">>,
     <<"n","e","a">>, <<"n","o","a">>, <<"c","u","y","o">>,
     <<"p","a","t","a","g","o","n","i","a">>, <<"p","a","m","p","e","a","n","a">>}

\* LOCATION_CANONICAL, as (variant, canonical name) pairs
LOCATION_CANONICAL ==
    {<<<<"c","o","r","r","i","e","n","t","r","s">>, <<"c","o","r","r","i","e","n","t","e","s">>>>,
     <<<<"c","o","r","i","e","n","t","e","s">>, <<"c","o","r","r","i","e","n","t","e","s">>>>,
     <<<<"c","t","e","s">>, <<"c","o","r","r","i","e","n","t","e","s">>>>,
     <<<<"b","s","a","s">>, <<"b","u","e","n","o","s"," ","a","i","r","e","s">>>>,
     <<<<"b","s"," ","a","s">>, <<"b","u","e","n","o","s"," ","a","i","r","e","s">>>>,
     <<<<"c","a","p","i","t","a","l"," ","f","e","d","e","r","a","l">>, <<"c","a","b","a">>>>,
     <<<<"c","u","r","u","z","u"," ","c","u","a","t","i","a">>, <<"c","u","r","u","z","u'"," ","c","u","a","t","i","a'">>>>,
     <<<<"s","a","n","t","o"," ","t","o","m","e">>, <<"s","a","n","t","o"," ","t","o","m","e'">>>>,
     <<<<"i","t","u","z","a","i","n","g","o">>, <<"i","t","u","z","a","i","n","g","o'">>>>,
     <<<<"c","o","n","c","e","p","c","i","o","n">>, <<"c","o","n","c","e","p","c","i","o'","n">>>>,
     <<<<"m","o","c","o","r","e","t","a">>, <<"m","o","c","o","r","e","t","a'">>>>,
     <<<<"i","t","a","t","i">>, <<"i","t","a","t","i'">>>>,
     <<<<"c","o","r","d","o","b","a">>, <<"c","o'","r","d","o","b","a">>>>,
     <<<<"t","u","c","u","m","a","n">>, <<"t","u","c","u","m","a'","n">>>>,
     <<<<"e","n","t","r","e"," ","r","i","o","s">>, <<"e","n","t","r","e"," ","r","i'","o","s">>>>,
     <<<<"n","e","u","q","u","e","n">>, <<"n","e","u","q","u","e'","n">>>>,
     <<<<"r","i","o"," ","n","e","g","r","o">>, <<"r","i'","o"," ","n","e","g","r","o">>>>}

\* the None a method returns in place of a tool name or of a result
NoTool == "<None>"

\* \b of the re module at the gap after position p of s (p = 0: the start)
IsWordAt(s, p) == p >= 1 /\ p <= Len(s) /\ IsWordChar(s[p])
Boundary(s, p) == IsWordAt(s, p) # IsWordAt(s, p + 1)

\* re.search(rf'\b{re.escape(keyword)}\b', s)
WholeWord(s, keyword) ==
    \E i \in 1..(Len(s) - Len(keyword) + 1) :
        /\ OccursAt(s, i, keyword)
        /\ Boundary(s, i - 1)
        /\ Boundary(s, i + Len(keyword) - 1)

\* what one keyword adds to the score of its tool
keyword_score(query_lower, keyword) ==
    IF Contains(query_lower, keyword)
    THEN IF WholeWord(query_lower, keyword) THEN 10 ELSE 5
    ELSE 0

RECURSIVE SumScores(_, _)
SumScores(query_lower, keywords) ==
    IF keywords = <<>> THEN 0
    ELSE keyword_score(query_lower, Head(keywords)) + SumScores(query_lower, Tail(keywords))

tool_score(query_lower, i) == SumScores(query_lower, TOOL_MAPPINGS[i].keywords)

\* a threshold no single keyword reaches
above_one_keyword(best_score) == best_score > 10

\* "best_tool if best_score >= 5"
reaches_threshold(best_score) == best_score >= 5

\* the loop keeps the first tool of the dict that reaches the highest score
\* the first tool of the dict with the highest score, where that score is
\* high enough
best_tool(scores, best_score) ==
    IF best_score > 0 /\ reaches_threshold(best_score)
    THEN TOOL_MAPPINGS[SetMin({i \in DOMAIN scores : scores[i] = best_score})].name
    ELSE NoTool

highest_tool(scores) == best_tool(scores, SetMax({scores[i] : i \in DOMAIN scores}))

detect_tool(query) ==
    highest_tool([i \in 1..Len(TOOL_MAPPINGS) |-> tool_score(Lower(query), i)])

\* LOCATION_CANONICAL.get(location, location)
Canonical(location) ==
    IF \E p \in LOCATION_CANONICAL : p[1] = location
    THEN (CHOOSE p \in LOCATION_CANONICAL : p[1] = location)[2]
    ELSE location

\* the entries of the list extract_locations returns; their order is the
\* iteration order of the set LOCATION_NAMES
found_locations(query) ==
    {Canonical(location) : location \in {l \in LOCATION_NAMES : Contains(Lower(query), l)}}

\* the lists with exactly the entries of S, each once
Orderings(S) ==
    {o \in [1..Cardinality(S) -> S] : \A i, j \in 1..Cardinality(S) : o[i] = o[j] => i = j}

ConfigOf(tool_name) ==
    TOOL_MAPPINGS[CHOOSE i \in 1..Len(TOOL_MAPPINGS) : TOOL_MAPPINGS[i].name = tool_name]

\* the empty dict
NoParams == <<>>

\* the first item of param_values whose keyword the query contains sets the
\* tool's parameter
first_param(config, hits) ==
    IF hits = {} THEN NoParams
    ELSE (config.param_name :> config.param_values[SetMin(hits)][2])

params_of(config, query_lower) ==
    first_param(config, {i \in 1..Len(config.param_values) :
                            Contains(query_lower, config.param_values[i][1])})

extract_params(query, tool_name) == params_of(ConfigOf(tool_name), Lower(query))

\* s[a..b] is a non-empty run of characters of S
RunOf(s, a, b, S) == a <= b /\ \A k \in a..b : s[k] \in S

\* r'entre\s+\w+\s+y\s+'
MatchesEntreY(s) ==
    \E i \in 1..Len(s) :
        /\ OccursAt(s, i, <<"e","n","t","r","e">>)
        /\ \E p1 \in (i + 5)..Len(s) :
            /\ RunOf(s, i + 5, p1, WS)
            /\ \E p2 \in (p1 + 1)..Len(s) :
                /\ RunOf(s, p1 + 1, p2, WordChars)
                /\ \E p3 \in (p2 + 1)..(Len(s) - 2) :
                    /\ RunOf(s, p2 + 1, p3, WS)
                    /\ s[p3 + 1] = "y"
                    /\ s[p3 + 2] \in WS

\* r'\w+\s+y\s+\w+'
MatchesWordYWord(s) ==
    \E r \in 2..(Len(s) - 1) :
        /\ s[r + 1] = "y"
        /\ s[r] \in WS
        /\ \E p \in 1..(r - 1) : s[p] \in WordChars /\ RunOf(s, p + 1, r, WS)
        /\ \E t \in (r + 2)..(Len(s) - 1) : RunOf(s, r + 2, t, WS) /\ s[t + 1] \in WordChars

\* first + '.*' + second: second starts after first ends, on the same line
MatchesThen(s, first, second) ==
    \E i \in 1..Len(s) :
        /\ OccursAt(s, i, first)
        /\ \E j \in (i + Len(first))..Len(s) :
            /\ OccursAt(s, j, second)
            /\ \A k \in (i + Len(first))..(j - 1) : s[k] # "<nl>"

is_comparison_query(query) ==
    LET s == Lower(query)
    IN  \/ Contains(s, <<"c","o","m","p","a","r","a">>)
        \/ Contains(s, <<"d","i","f","e","r","e","n","c","i","a">>)
        \/ Contains(s, <<"v","s">>)
        \/ MatchesEntreY(s)
        \/ MatchesWordYWord(s)
        \/ MatchesThen(s, <<"c","u","a","l">>, <<"m","a","y","o","r">>)
        \/ MatchesThen(s, <<"c","u","a","l">>, <<"m","e","n","o","r">>)
        \/ MatchesThen(s, <<"m","a","s">>, <<"q","u","e">>)
        \/ MatchesThen(s, <<"m","e","n","o","s">>, <<"q","u","e">>)
        \/ Cardinality(found_locations(query)) >= 2

\* the keyword parameters each DatabaseTools method accepts
ToolSignature(tool_name) ==
    CASE tool_name = "get_ipc" -> {"fecha", "region", "categoria"}
      [] tool_name = "get_dolar" -> {"tipo", "fecha"}
      [] tool_name = "get_empleo" -> {"provincia", "tipo"}
      [] tool_name = "get_semaforo" -> {"tipo"}
      [] tool_name = "get_ecv" -> {"aglomerado"}
      [] tool_name = "get_censo" -> {"municipio"}
      [] tool_name = "get_combustible" -> {"provincia", "producto"}
      [] tool_name = "get_patentamientos" -> {"provincia", "tipo"}
      [] tool_name = "get_aeropuertos" -> {"aeropuerto"}
      [] tool_name = "get_oede" -> {"provincia", "categoria"}
      [] tool_name = "get_pobreza" -> {"region"}
      [] tool_name = "get_emae" -> {"categoria"}
      [] tool_name = "get_pbg" -> {"tipo", "sector"}
      [] tool_name = "get_salarios" -> {"tipo"}
      [] tool_name = "get_supermercados" -> {"provincia"}
      [] tool_name = "get_construccion" -> {"tipo"}
      [] OTHER -> {}

\* the handlers that call their method without the arguments
IgnoresArgs(tool_name) == tool_name \in {"get_canasta_basica", "get_ipc_corrientes"}

\* what a tool returns when its query finds no row
NoDataText ==
    <<"N","o"," ","s","e"," ","e","n","c","o","n","t","r","a","r","o","n"," ","d","a","t","o",
      "s"," ","d","e","l"," ","c","e","n","s","o",".">>

\* what a tool returns when its query raises
QueryErrorText ==
    <<"E","r","r","o","r"," ","a","l"," ","c","o","n","s","u","l","t","a","r"," ","e","l"," ",
      "c","e","n","s","o",":"," ","c","o","n","n","e","c","t","i","o","n"," ","r","e","f","u",
      "s","e","d">>

\* what ToolExecutor.execute returns when the handler raises
HandlerErrorText ==
    <<"L","o"," ","s","i","e","n","t","o",","," ","h","u","b","o"," ","u","n"," ","e","r","r",
      "o","r"," ","a","l"," ","o","b","t","e","n","e","r"," ","l","o","s"," ","d","a","t","o",
      "s","."," ","P","o","r"," ","f","a","v","o","r"," ","i","n","t","e","n","t","a"," ","d",
      "e"," ","n","u","e","v","o",".">>

NoDbToolsText ==
    <<"E","r","r","o","r",":"," ","H","e","r","r","a","m","i","e","n","t","a","s"," ","d","e",
      " ","b","a","s","e"," ","d","e"," ","d","a","t","o","s"," ","n","o"," ","d","i","s","p",
      "o","n","i","b","l","e","s">>

TableTitle ==
    <<"#","#"," ","<people>"," ","C","e","n","s","o"," ","P","o","b","l","a","c","i","o","n",
      "a","l"," ","2","0","1","0"," ","v","s"," ","2","0","2","2">>
TableHeader ==
    <<"|"," ","M","u","n","i","c","i","p","i","o"," ","|"," ","P","o","b","."," ","2","0","2",
      "2"," ","|">>
TableRule ==
    <<"|","-","-","-","-","-","-","-","-","-","-","-","|","-","-","-","-","-","-","-","-","-",
      "-","-","|">>

\* the rows a tool formats: a titled table with one row for the place asked
\* for (the whole table's first row when no place is given)
TableText(place) ==
    TableTitle \o <<"<nl>", "<nl>">> \o TableHeader \o <<"<nl>">> \o TableRule \o <<"<nl>">>
        \o <<"|", " ">> \o place \o <<" ", "|", " ", "1", " ", "|", "<nl>">>

\* the rows of the tools that write one line per date and no table
LinesText(tipo) ==
    <<"#","#"," ","C","o","t","i","z","a","c","i","o'","n"," ","D","o'","l","a","r"," ">>
        \o tipo \o <<"<nl>", "<nl>">>
        \o <<"*","*","0","1","/","0","1","/","2","0","2","5","*","*",":"," ","C","o","m","p",
             "r","a"," ","$","1"," ","|"," ","V","e","n","t","a"," ","$","2","<nl>">>

\* the place a call filters by: the value of its argument that is no "tipo"
PlaceArgs(tool_args) == {tool_args[k] : k \in DOMAIN tool_args \ {"tipo"}}

\* a DatabaseTools method on a database db = [down, places]: down says that
\* queries raise, places are the places the tables hold rows for
tool_method(db, tool_name, tool_args) ==
    LET places == PlaceArgs(tool_args)
        some == CHOOSE p \in db.places : \A q \in db.places : Len(p) <= Len(q)
    IN  IF db.down THEN QueryErrorText
        ELSE IF db.places = {} \/ ~ (places \subseteq db.places) THEN NoDataText
        ELSE IF "tipo" \in ToolSignature(tool_name)
             THEN LinesText(IF "tipo" \in DOMAIN tool_args THEN tool_args["tipo"] ELSE <<>>)
        ELSE TableText(IF places = {} THEN some ELSE CHOOSE p \in places : TRUE)

\* ToolExecutor.execute
execute(db, tool_name, tool_args) ==
    IF ~ db.available THEN NoDbToolsText
    ELSE IF IgnoresArgs(tool_name) THEN tool_method(db, tool_name, NoParams)
    ELSE IF ~ (DOMAIN tool_args \subseteq ToolSignature(tool_name)) THEN HandlerErrorText
    ELSE tool_method(db, tool_name, tool_args)

is_available(db) == db.available

UpperChar(c) ==
    IF \E i \in 1..Len(LowerChars) : LowerChars[i] = c
    THEN UpperChars[CHOOSE i \in 1..Len(LowerChars) : LowerChars[i] = c]
    ELSE c

IsCased(c) ==
    \E i \in 1..Len(LowerChars) : LowerChars[i] = c \/ UpperChars[i] = c

\* str.title(): a letter after a character that is no letter is written in
\* upper case, every other letter in lower case
Title(s) ==
    [i \in 1..Len(s) |-> IF i = 1 \/ ~ IsCased(s[i - 1]) THEN UpperChar(s[i])
                         ELSE LowerChar(s[i])]

\* str.split('\n'): the pieces between line feeds, empty pieces included
SplitLines(s) ==
    LET cuts == {i \in 1..Len(s) : s[i] = "<nl>"}
        cut(n) == IF n = 0 THEN 0
                  ELSE IF n > Cardinality(cuts) THEN Len(s) + 1
                  ELSE CHOOSE i \in cuts : Cardinality({j \in cuts : j < i}) = n - 1
    IN  [n \in 1..(Cardinality(cuts) + 1) |-> SubSeq(s, cut(n - 1) + 1, cut(n) - 1)]

ComparisonTitle(description) ==
    <<"#","#"," ","<chart>"," ","C","o","m","p","a","r","a","t","i","v","a"," ","d","e"," ">>
        \o Title(description) \o <<"<nl>", "<nl>">>

ComparisonFooter ==
    <<"<nl>", "<nl>">> \o
    <<">"," ","C","o","m","p","a","r","a","t","i","v","a"," ","g","e","n","e","r","a","d","a",
      " ","a","u","t","o","m","a'","t","i","c","a","m","e","n","t","e",".">>

\* the loop of _format_comparison over the lines of every result, from line
\* k of result ri on: <<combined, header_found>> at its end
RECURSIVE CombineTables(_, _, _, _, _)
CombineTables(results, ri, k, combined, header_found) ==
    IF ri > Len(results) THEN <<combined, header_found>>
    ELSE LET lines == SplitLines(results[ri])
         IN  IF k > Len(lines) THEN CombineTables(results, ri + 1, 1, combined, header_found)
             ELSE LET line == lines[k]
                      idx == SetMin({j \in 1..Len(lines) : lines[j] = line})
                      is_rule == Contains(line, <<"|">>) /\ Contains(line, <<"-","-","-">>)
                      is_row == /\ Contains(line, <<"|">>)
                                /\ ~ Contains(line, <<"-","-","-">>)
                                /\ header_found
                                /\ Strip(line) # <<>>
                                /\ ~ Contains(line, <<"M","u","n","i","c","i","p","i","o">>)
                                /\ ~ Contains(line, <<"F","e","c","h","a">>)
                  IN  IF is_rule /\ ~ header_found /\ idx > 1
                      THEN CombineTables(results, ri, k + 1,
                                combined \o lines[idx - 1] \o <<"<nl>">> \o line \o <<"<nl>">>,
                                TRUE)
                      ELSE IF is_row
                      THEN CombineTables(results, ri, k + 1, combined \o line \o <<"<nl>">>,
                                         header_found)
                      ELSE CombineTables(results, ri, k + 1, combined, header_found)

\* the separator of results that hold no table
ResultRule == <<"<nl>", "-", "-", "-", "<nl>">>

combined_or_joined(results, description, tables) ==
    IF tables[2] THEN tables[1] \o ComparisonFooter
    ELSE ComparisonTitle(description) \o Join(results, ResultRule) \o ComparisonFooter

_format_comparison(results, description) ==
    IF Len(results) = 1 THEN results[1]
    ELSE combined_or_joined(results, description,
                            CombineTables(results, 1, 1, ComparisonTitle(description), FALSE))

\* the two markers route_and_execute looks for in a tool's result
NotFoundMarker == <<"N","o"," ","s","e"," ","e","n","c","o","n","t","r","a","r","o","n">>
ErrorMarker == <<"E","r","r","o","r">>

\* the calls of the comparison loop: one per location, in the list's order
ComparisonCalls(tool_name, param_name, locations, params) ==
    [i \in 1..Len(locations) |->
        [tool |-> tool_name, args |-> params @@ (param_name :> locations[i])]]

\* the results the comparison loop keeps
kept_results(results) ==
    SelectSeq(results, LAMBDA r : r # <<>> /\ ~ Contains(r, NotFoundMarker)
                                    /\ ~ Contains(r, ErrorMarker))


RouteNone(calls) == [tool |-> NoTool, text |-> <<>>, calls |-> calls]

\* the comparison branch once its calls were made
comparison_result(config, comparison_calls, results) ==
    IF results # <<>>
    THEN [tool |-> config.name,
          text |-> _format_comparison(results, config.description),
          calls |-> comparison_calls]
    ELSE RouteNone(comparison_calls)

\* the comparison branch: one call per location
route_comparison(db, config, comparison_calls) ==
    comparison_result(config, comparison_calls,
             kept_results([i \in 1..Len(comparison_calls) |->
                            execute(db, config.name, comparison_calls[i].args)]))

\* the single-tool branch once its call was made
routed_single(tool_name, single_args, result) ==
    IF result # <<>> /\ ~ Contains(result, NotFoundMarker)
    THEN [tool |-> tool_name, text |-> result,
          calls |-> <<[tool |-> tool_name, args |-> single_args]>>]
    ELSE RouteNone(<<[tool |-> tool_name, args |-> single_args]>>)

\* the single-tool branch: one call with the arguments worked out
route_single(db, tool_name, single_args) ==
    routed_single(tool_name, single_args, execute(db, tool_name, single_args))

\* route_and_execute once the tool and its parameters are known
route_tool(db, query, locations, config, params) ==
    IF is_comparison_query(query) /\ locations # <<>> /\ config.param_name # NoTool
    THEN route_comparison(db, config,
                          ComparisonCalls(config.name, config.param_name, locations, params))
    ELSE route_single(db, config.name,
                      IF locations # <<>> /\ config.param_name # NoTool
                      THEN (config.param_name :> locations[1]) @@ params
                      ELSE params)

route_detected(db, query, locations, tool_name) ==
    IF tool_name = NoTool THEN RouteNone(<<>>)
    ELSE route_tool(db, query, locations, ConfigOf(tool_name),
                    extract_params(query, tool_name))

\* route_and_execute on a database db, with `locations` the list that
\* extract_locations returned: the pair returned (tool NoTool: None) and the
\* calls made to the executor
route_and_execute(db, query, locations) ==
    IF ~ is_available(db) THEN RouteNone(<<>>)
    ELSE route_detected(db, query, locations, detect_tool(query))

-----------------------------------------------------------------------------
(* Numbers typed by the user, and MenuTree.find_node_by_keyword.             *)

\* str.isdigit(): not empty, every character a digit of some kind
isdigit(s) == s # <<>> /\ \A i \in 1..Len(s) : s[i] \in Digits \cup OtherDigits

\* the literal int() is left with once the sign is taken off
Unsigned(s) == IF s # <<>> /\ s[1] \in {"+", "-"} THEN Tail(s) ELSE s

\* no decimal literal: digits, single underscores allowed between them
Malformed(u) ==
    \/ u = <<>>
    \/ \E i \in 1..Len(u) : u[i] \notin Digits \cup {"_"}
    \/ u[1] = "_" \/ u[Len(u)] = "_"
    \/ \E i \in 1..(Len(u) - 1) : u[i] = "_" /\ u[i + 1] = "_"

\* int(s) raises ValueError: after the white space and one sign there must be
\* a decimal literal
IntRaises(s) ==
    Malformed(Unsigned(Strip(s)))

DigitValue(c) == CHOOSE d \in 0..9 : ToString(d) = c

RECURSIVE DecimalValue(_)
DecimalValue(u) ==
    IF u = <<>> THEN 0
    ELSE IF u[Len(u)] = "_" THEN DecimalValue(SubSeq(u, 1, Len(u) - 1))
    ELSE 10 * DecimalValue(SubSeq(u, 1, Len(u) - 1)) + DigitValue(u[Len(u)])

Signed(t) == IF t[1] = "-" THEN 0 - DecimalValue(Unsigned(t)) ELSE DecimalValue(Unsigned(t))

\* int(s), where it does not raise
int(s) ==
    Signed(Strip(s))

\* node.tool_args or {}
tool_args_of(node) == IF "tool_args" \in DOMAIN node THEN node.tool_args ELSE NoParams

action_words ==
    <<<<"c","o","m","p","a","r","a","r">>, <<"c","o","m","p","a","r","a","c","i","o","n">>, <<"c","o","m","p","a","r","a","c","i","o'","n">>, <<"d","a","m","e">>, <<"m","u","e'","s","t","r","a","m","e">>, <<"m","u","e","s","t","r","a","m","e">>,
      <<"c","u","a","l"," ","e","s">>, <<"c","u","a'","l"," ","e","s">>, <<"c","u","a","n","t","o">>, <<"c","u","a'","n","t","o">>, <<"c","u","a","n","t","o","s">>, <<"c","u","a'","n","t","o","s">>,
      <<"d","i","f","e","r","e","n","c","i","a">>, <<"v","a","r","i","a","c","i","o","n">>, <<"v","a","r","i","a","c","i","o'","n">>, <<"c","r","e","c","i","m","i","e","n","t","o">>, <<"e","v","o","l","u","c","i","o","n">>, <<"e","v","o","l","u","c","i","o'","n">>>>

\* any(word in text for word in words)
AnyIn(words, text) == \E i \in 1..Len(words) : Contains(text, words[i])

\* any(word in text for word in words if len(word) > n)
LongWordIn(words, n, text) ==
    \E i \in 1..Len(words) : Len(words[i]) > n /\ Contains(text, words[i])

\* what a title adds to the score, title_clean being the title without
\* punctuation
clean_title_score(title_clean, text_clean) ==
    IF title_clean = text_clean THEN 20
    ELSE IF Contains(text_clean, title_clean) \/ Contains(title_clean, text_clean) THEN 15
    ELSE IF LongWordIn(Split(title_clean), 3, text_clean) THEN 10
    ELSE 0

\* what the title of a node adds to its score
title_score(node, text_clean) ==
    IF node.title = <<>> THEN 0
    ELSE clean_title_score(DropPunct(Lower(node.title)), text_clean)

\* what one keyword of a node adds
lowered_keyword_score(keyword_lower, text_lower) ==
    IF ~ Contains(text_lower, keyword_lower) THEN 0
    ELSE IF keyword_lower = text_lower THEN 10
    ELSE IF StartsWith(text_lower, keyword_lower) \/ EndsWith(text_lower, keyword_lower) THEN 5
    ELSE 1

node_keyword_score(keyword, text_lower) == lowered_keyword_score(Lower(keyword), text_lower)

RECURSIVE keywords_score(_, _)
keywords_score(keywords, text_lower) ==
    IF keywords = <<>> THEN 0
    ELSE node_keyword_score(Head(keywords), text_lower)
            + keywords_score(Tail(keywords), text_lower)

clean_description_score(desc_clean, text_clean) ==
    IF desc_clean = text_clean THEN 15
    ELSE IF Contains(text_clean, desc_clean) \/ Contains(desc_clean, text_clean) THEN 10
    ELSE IF LongWordIn(Split(desc_clean), 4, text_clean) THEN 3
    ELSE 0

\* what the description of a node adds
description_score(node, text_clean) ==
    IF node.description = <<>> THEN 0
    ELSE clean_description_score(DropPunct(Lower(node.description)), text_clean)

\* what the id of a node adds
id_score(node_id_lower, text_lower) ==
    IF Contains(text_lower, node_id_lower) \/ Contains(node_id_lower, text_lower) THEN 3
    ELSE 0

\* a query that asks for data favours the tools and holds back the menus
action_adjusted(node, is_action_query, score) ==
    IF is_action_query /\ score > 0
    THEN IF node.action = "tool" THEN score + 10
         ELSE IF node.action = "menu" /\ node.children # <<>> THEN score - 3
         ELSE score
    ELSE score

\* the score of one node in the loop of find_node_by_keyword
node_score(node, text_lower, text_clean, is_action_query) ==
    action_adjusted(node, is_action_query,
                    title_score(node, text_clean) + keywords_score(node.keywords, text_lower)
                        + description_score(node, text_clean)
                        + id_score(Lower(node.id), text_lower))

RECURSIVE best_node(_, _, _, _, _, _)

\* one round of the loop: the node scored against the best match so far
compare_node(nodes, text_lower, text_clean, is_action_query, best_match, best_score, score) ==
    IF score > best_score
    THEN best_node(Tail(nodes), text_lower, text_clean, is_action_query, Head(nodes), score)
    ELSE IF score = best_score /\ score > 0 /\ Head(nodes).action = "tool"
            /\ (best_match = NoNode \/ best_match.action = "menu")
    THEN best_node(Tail(nodes), text_lower, text_clean, is_action_query, Head(nodes),
                   best_score)
    ELSE best_node(Tail(nodes), text_lower, text_clean, is_action_query, best_match,
                   best_score)

\* the loop over self.nodes.values(): the best match and its score so far
best_node(nodes, text_lower, text_clean, is_action_query, best_match, best_score) ==
    IF nodes = <<>> THEN [match |-> best_match, score |-> best_score]
    ELSE compare_node(nodes, text_lower, text_clean, is_action_query, best_match, best_score,
                      node_score(Head(nodes), text_lower, text_clean, is_action_query))

\* a number typed as text is looked up among the children of the root
root_child(self, option_number) ==
    LET r == get_root(self)
    IN  IF r # NoNode /\ r.children # <<>> /\ 1 <= option_number
            /\ option_number <= Len(r.children)
        THEN r.children[option_number]
        ELSE NoneId


\* "if best_score >= 5: return best_match"
significant_match(best) == IF best.score >= 5 THEN best.match ELSE NoNode

\* find_node_by_keyword on the lowered and stripped text
search_nodes(self, text_lower) ==
    IF ~ IntRaises(text_lower) /\ root_child(self, int(text_lower)) # NoneId
    THEN get_node(self, root_child(self, int(text_lower)))
    ELSE significant_match(best_node(self.nodes, text_lower, DropPunct(text_lower),
                                     AnyIn(action_words, text_lower), NoNode, 0))

\* MenuTree.find_node_by_keyword
find_node_by_keyword(self, text) == search_nodes(self, Strip(Lower(text)))

-----------------------------------------------------------------------------
(* The intent classifiers (llm_intent_classifier.py, intent_classifier.py).  *)

\* the topics of _extract_topic, in dict order, each with its keywords
topic_keywords ==
    <<[topic |-> "dolar",
       keywords |->
          <<<<"d","o","l","a","r">>, <<"d","o'","l","a","r">>,
            <<"c","o","t","i","z","a","c","i","o","n">>, <<"b","l","u","e">>,
            <<"o","f","i","c","i","a","l">>, <<"m","e","p">>, <<"c","c","l">>>>],
      [topic |-> "ipc",
       keywords |->
          <<<<"i","p","c">>, <<"i","n","f","l","a","c","i","o","n">>,
            <<"i","n","f","l","a","c","i","o'","n">>, <<"p","r","e","c","i","o","s">>>>],
      [topic |-> "ipc_corrientes",
       keywords |->
          <<<<"i","p","i","c","o","r","r">>,
            <<"i","p","c"," ","c","o","r","r","i","e","n","t","e","s">>,
            <<"i","n","f","l","a","c","i","o","n"," ","c","o","r","r","i","e","n","t","e","s">>>>],
      [topic |-> "empleo",
       keywords |->
          <<<<"e","m","p","l","e","o">>, <<"d","e","s","e","m","p","l","e","o">>,
            <<"t","r","a","b","a","j","o">>, <<"e","p","h">>,
            <<"o","c","u","p","a","c","i","o","n">>>>],
      [topic |-> "sipa",
       keywords |->
          <<<<"s","i","p","a">>,
            <<"e","m","p","l","e","o"," ","r","e","g","i","s","t","r","a","d","o">>>>],
      [topic |-> "ecv",
       keywords |->
          <<<<"e","c","v">>,
            <<"c","a","l","i","d","a","d"," ","d","e"," ","v","i","d","a">>,
            <<"c","o","n","d","i","c","i","o","n","e","s"," ","d","e"," ","v","i","d","a">>>>],
      [topic |-> "oede",
       keywords |->
          <<<<"o","e","d","e">>,
            <<"o","b","s","e","r","v","a","t","o","r","i","o"," ","d","e"," ","e","m","p","l","e","o">>,
            <<"d","i","n","a","m","i","c","a"," ","e","m","p","r","e","s","a","r","i","a","l">>,
            <<"d","i","n","a'","m","i","c","a"," ","e","m","p","r","e","s","a","r","i","a","l">>>>],
      [topic |-> "censo",
       keywords |->
          <<<<"c","e","n","s","o">>, <<"p","o","b","l","a","c","i","o","n">>,
            <<"p","o","b","l","a","c","i","o'","n">>,
            <<"h","a","b","i","t","a","n","t","e","s">>,
            <<"d","e","m","o","g","r","a","f","i","c","o">>>>],
      [topic |-> "semaforo",
       keywords |->
          <<<<"s","e","m","a","f","o","r","o">>, <<"s","e","m","a'","f","o","r","o">>,
            <<"i","n","d","i","c","a","d","o","r","e","s"," ","e","c","o","n","o","m","i","c","o","s">>>>],
      [topic |-> "patentamientos",
       keywords |->
          <<<<"p","a","t","e","n","t","a","m","i","e","n","t","o">>,
            <<"v","e","h","i","c","u","l","o","s">>, <<"a","u","t","o","s">>,
            <<"m","o","t","o","s">>, <<"0","k","m">>>>],
      [topic |-> "combustible",
       keywords |->
          <<<<"c","o","m","b","u","s","t","i","b","l","e">>, <<"n","a","f","t","a">>,
            <<"g","a","s","o","i","l">>>>],
      [topic |-> "pobreza",
       keywords |->
          <<<<"p","o","b","r","e","z","a">>, <<"i","n","d","i","g","e","n","c","i","a">>,
            <<"c","b","t">>, <<"c","b","a">>>>],
      [topic |-> "canasta",
       keywords |->
          <<<<"c","a","n","a","s","t","a"," ","b","a","s","i","c","a">>,
            <<"c","a","n","a","s","t","a"," ","b","a'","s","i","c","a">>>>],
      [topic |-> "aeropuertos",
       keywords |->
          <<<<"a","e","r","o","p","u","e","r","t","o">>,
            <<"a","e","r","o","p","u","e","r","t","o","s">>, <<"a","n","a","c">>,
            <<"v","u","e","l","o","s">>,
            <<"p","a","s","a","j","e","r","o","s"," ","a","e","r","o","p","u","e","r","t","o">>>>],
      [topic |-> "emae",
       keywords |->
          <<<<"e","m","a","e">>,
            <<"a","c","t","i","v","i","d","a","d"," ","e","c","o","n","o","m","i","c","a">>,
            <<"a","c","t","i","v","i","d","a","d"," ","e","c","o","n","o'","m","i","c","a">>>>],
      [topic |-> "pbg",
       keywords |->
          <<<<"p","b","g">>, <<"p","r","o","d","u","c","t","o"," ","b","r","u","t","o">>,
            <<"p","r","o","d","u","c","c","i","o","n"," ","p","r","o","v","i","n","c","i","a","l">>>>],
      [topic |-> "salarios",
       keywords |->
          <<<<"s","a","l","a","r","i","o">>, <<"s","a","l","a","r","i","o","s">>,
            <<"s","m","v","m">>, <<"r","i","p","t","e">>, <<"s","u","e","l","d","o">>,
            <<"m","i","n","i","m","o"," ","v","i","t","a","l">>>>],
      [topic |-> "supermercados",
       keywords |->
          <<<<"s","u","p","e","r","m","e","r","c","a","d","o">>,
            <<"s","u","p","e","r","m","e","r","c","a","d","o","s">>,
            <<"f","a","c","t","u","r","a","c","i","o","n"," ","s","u","p","e","r","m","e","r","c","a","d","o","s">>>>],
      [topic |-> "construccion",
       keywords |->
          <<<<"c","o","n","s","t","r","u","c","c","i","o","n">>,
            <<"c","o","n","s","t","r","u","c","c","i","o'","n">>, <<"i","e","r","i","c">>,
            <<"o","b","r","a","s">>>>]>>

domain_topics ==
    <<<<"d","o","l","a","r">>, <<"d","o'","l","a","r">>, <<"i","p","c">>,
      <<"i","n","f","l","a","c","i","o","n">>, <<"i","n","f","l","a","c","i","o'","n">>,
      <<"e","m","p","l","e","o">>, <<"c","e","n","s","o">>,
      <<"p","o","b","l","a","c","i","o","n">>, <<"p","o","b","l","a","c","i","o'","n">>,
      <<"s","e","m","a","f","o","r","o">>, <<"s","e","m","a'","f","o","r","o">>,
      <<"p","a","t","e","n","t","a","m","i","e","n","t","o">>,
      <<"p","a","t","e","n","t","a","m","i","e","n","t","o","s">>,
      <<"c","o","m","b","u","s","t","i","b","l","e">>, <<"p","o","b","r","e","z","a">>,
      <<"e","p","h">>, <<"e","c","v">>, <<"o","e","d","e">>,
      <<"o","b","s","e","r","v","a","t","o","r","i","o">>,
      <<"a","e","r","o","p","u","e","r","t","o">>,
      <<"a","e","r","o","p","u","e","r","t","o","s">>, <<"c","a","n","a","s","t","a">>,
      <<"s","a","l","a","r","i","o">>, <<"s","a","l","a","r","i","o","s">>,
      <<"t","r","a","b","a","j","o">>, <<"d","e","s","e","m","p","l","e","o">>,
      <<"s","m","v","m">>, <<"r","i","p","t","e">>, <<"e","m","a","e">>, <<"p","b","g">>,
      <<"s","u","p","e","r","m","e","r","c","a","d","o">>,
      <<"s","u","p","e","r","m","e","r","c","a","d","o","s">>,
      <<"c","o","n","s","t","r","u","c","c","i","o","n">>,
      <<"c","o","n","s","t","r","u","c","c","i","o'","n">>, <<"i","e","r","i","c">>,
      <<"i","p","i","c","o","r","r">>,
      <<"a","c","t","i","v","i","d","a","d"," ","e","c","o","n","o","m","i","c","a">>,
      <<"a","c","t","i","v","i","d","a","d"," ","e","c","o","n","o'","m","i","c","a">>>>

\* the places _extract_entities looks for, in list order
entity_locations ==
    <<<<"g","o","y","a">>, <<"c","o","r","r","i","e","n","t","e","s">>,
      <<"m","e","r","c","e","d","e","s">>,
      <<"p","a","s","o"," ","d","e"," ","l","o","s"," ","l","i","b","r","e","s">>,
      <<"b","e","l","l","a"," ","v","i","s","t","a">>, <<"e","s","q","u","i","n","a">>,
      <<"m","o","n","t","e"," ","c","a","s","e","r","o","s">>,
      <<"v","i","r","a","s","o","r","o">>, <<"s","a","n","t","o"," ","t","o","m","e">>,
      <<"s","a","l","a","d","a","s">>, <<"b","u","e","n","o","s"," ","a","i","r","e","s">>,
      <<"c","a","b","a">>, <<"c","o","r","d","o","b","a">>, <<"r","o","s","a","r","i","o">>,
      <<"m","e","n","d","o","z","a">>, <<"n","e","a">>, <<"n","o","a">>, <<"g","b","a">>,
      <<"p","a","t","a","g","o","n","i","a">>>>

DOMAIN_KEYWORDS ==
    {<<"0","k","m">>, <<"a","c","t","i","v","i","d","a","d">>,
      <<"a","e","r","o","p","u","e","r","t","o">>,
      <<"a","e","r","o","p","u","e","r","t","o","s">>, <<"a","n","a","c">>,
      <<"a","r","g","e","n","t","i","n","a">>, <<"a","u","t","o","s">>,
      <<"a","u","t","o","s","e","r","v","i","c","i","o">>, <<"a","v","i","o","n">>,
      <<"a","v","i","o'","n">>, <<"b","a","s","i","c","a">>, <<"b","l","u","e">>,
      <<"b","r","u","t","o">>, <<"b","a'","s","i","c","a">>,
      <<"c","a","l","i","d","a","d">>, <<"c","a","n","a","s","t","a">>, <<"c","b","a">>,
      <<"c","b","t">>, <<"c","c","l">>, <<"c","e","n","s","o">>,
      <<"c","e","n","s","o","s">>, <<"c","o","m","b","u","s","t","i","b","l","e">>,
      <<"c","o","n","s","t","r","u","c","c","i","o","n">>,
      <<"c","o","n","s","t","r","u","c","c","i","o'","n">>,
      <<"c","o","r","r","i","e","n","t","e","s">>,
      <<"c","o","t","i","z","a","c","i","o","n">>,
      <<"c","o","t","i","z","a","c","i","o'","n">>, <<"d","a","t","o","s">>,
      <<"d","e","p","a","r","t","a","m","e","n","t","o">>,
      <<"d","e","s","e","m","p","l","e","o">>, <<"d","i","n","a","m","i","c","a">>,
      <<"d","i","n","a'","m","i","c","a">>, <<"d","n","r","p","a">>,
      <<"d","o","l","a","r">>, <<"d","o'","l","a","r">>,
      <<"e","c","o","n","o","m","i","a">>, <<"e","c","o","n","o","m","i","c","o">>,
      <<"e","c","o","n","o","m","i'","a">>, <<"e","c","o","n","o'","m","i","c","o">>,
      <<"e","c","v">>, <<"e","d","i","f","i","c","a","c","i","o","n">>,
      <<"e","d","i","f","i","c","a","c","i","o'","n">>, <<"e","m","a","e">>,
      <<"e","m","p","l","e","o">>, <<"e","m","p","r","e","s","a","r","i","a","l">>,
      <<"e","m","p","r","e","s","a","s">>, <<"e","n","c","u","e","s","t","a">>,
      <<"e","p","h">>, <<"e","s","t","a","d","i","s","t","i","c","a">>,
      <<"e","s","t","a","d","i'","s","t","i","c","a","s">>,
      <<"e","x","p","o","r","t","a","c","i","o","n">>,
      <<"e","x","p","o","r","t","a","c","i","o","n","e","s">>,
      <<"f","a","c","t","u","r","a","c","i","o","n">>,
      <<"f","a","c","t","u","r","a","c","i","o'","n">>, <<"g","a","s","o","i","l">>,
      <<"h","a","b","i","t","a","n","t","e","s">>, <<"i","e","r","i","c">>,
      <<"i","m","p","o","r","t","a","c","i","o","n">>,
      <<"i","m","p","o","r","t","a","c","i","o","n","e","s">>,
      <<"i","n","d","i","c","a","d","o","r">>,
      <<"i","n","d","i","c","a","d","o","r","e","s">>,
      <<"i","n","d","i","g","e","n","c","i","a">>, <<"i","n","d","u","s","t","r","i","a">>,
      <<"i","n","f","l","a","c","i","o","n">>, <<"i","n","f","l","a","c","i","o'","n">>,
      <<"i","n","s","t","i","t","u","t","o">>, <<"i","n","t","e","r","a","n","u","a","l">>,
      <<"i","p","c">>, <<"i","p","e","c","d">>, <<"i","p","i">>,
      <<"i","p","i","c","o","r","r">>, <<"l","i","n","e","a">>, <<"l","i'","n","e","a">>,
      <<"m","e","n","s","u","a","l">>, <<"m","e","p">>, <<"m","i","n","i","m","o">>,
      <<"m","o","t","o","s">>, <<"m","u","n","i","c","i","p","i","o">>,
      <<"m","i'","n","i","m","o">>, <<"n","a","f","t","a">>, <<"n","e","a">>,
      <<"o","b","r","a","s">>, <<"o","b","s","e","r","v","a","t","o","r","i","o">>,
      <<"o","e","d","e">>, <<"o","f","i","c","i","a","l">>,
      <<"p","a","s","a","j","e","r","o","s">>,
      <<"p","a","t","e","n","t","a","m","i","e","n","t","o">>,
      <<"p","a","t","e","n","t","a","m","i","e","n","t","o","s">>, <<"p","b","g">>,
      <<"p","o","b","l","a","c","i","o","n">>, <<"p","o","b","l","a","c","i","o'","n">>,
      <<"p","o","b","r","e","z","a">>, <<"p","o","r","c","e","n","t","a","j","e">>,
      <<"p","r","e","c","i","o","s">>, <<"p","r","o","d","u","c","c","i","o","n">>,
      <<"p","r","o","d","u","c","c","i","o'","n">>, <<"p","r","o","d","u","c","t","o">>,
      <<"p","r","o","v","i","n","c","i","a">>, <<"r","e","g","i","o","n">>,
      <<"r","e","g","i","o'","n">>, <<"r","e","m","u","n","e","r","a","c","i","o","n">>,
      <<"r","e","m","u","n","e","r","a","c","i","o'","n">>, <<"r","i","p","t","e">>,
      <<"s","a","l","a","r","i","o">>, <<"s","a","l","a","r","i","o","s">>,
      <<"s","e","c","t","o","r","e","s">>, <<"s","e","m","a","f","o","r","o">>,
      <<"s","e","m","a'","f","o","r","o">>, <<"s","i","p","a">>, <<"s","m","v","m">>,
      <<"s","u","e","l","d","o">>, <<"s","u","e","l","d","o","s">>,
      <<"s","u","p","e","r","m","e","r","c","a","d","o">>,
      <<"s","u","p","e","r","m","e","r","c","a","d","o","s">>, <<"t","a","s","a">>,
      <<"t","a","s","a","s">>, <<"t","r","a","b","a","j","o">>,
      <<"v","a","r","i","a","c","i","o","n">>, <<"v","a","r","i","a","c","i","o'","n">>,
      <<"v","e","h","i","c","u","l","o","s">>, <<"v","e","h","i'","c","u","l","o","s">>,
      <<"v","i","d","a">>, <<"v","u","e","l","o","s">>}

OUT_OF_DOMAIN_KEYWORDS ==
    {<<"c","l","i","m","a">>, <<"c","o","c","i","n","a">>, <<"c","o","l","e","g","i","o">>,
      <<"c","o","m","i","d","a">>, <<"c","o","v","i","d">>, <<"d","e","p","o","r","t","e">>,
      <<"e","d","u","c","a","c","i","o","n">>, <<"e","d","u","c","a","c","i","o'","n">>,
      <<"e","l","e","c","c","i","o","n","e","s">>,
      <<"e","n","f","e","r","m","e","d","a","d">>, <<"e","s","c","u","e","l","a">>,
      <<"f","u","t","b","o","l">>, <<"f","u'","t","b","o","l">>,
      <<"g","o","b","e","r","n","a","d","o","r">>, <<"h","o","s","p","i","t","a","l">>,
      <<"l","l","u","v","i","a">>, <<"m","a","r","a","d","o","n","a">>,
      <<"m","e","d","i","c","o">>, <<"m","e","s","s","i">>, <<"m","u","s","i","c","a">>,
      <<"m","e'","d","i","c","o">>, <<"m","u'","s","i","c","a">>,
      <<"p","e","l","i","c","u","l","a">>, <<"p","e","l","i'","c","u","l","a">>,
      <<"p","o","l","i","t","i","c","a">>, <<"p","o","l","i'","t","i","c","a">>,
      <<"p","r","e","s","i","d","e","n","t","e">>, <<"r","e","c","e","t","a">>,
      <<"s","a","l","u","d">>, <<"s","e","r","i","e">>,
      <<"t","e","m","p","e","r","a","t","u","r","a">>, <<"t","i","e","m","p","o">>,
      <<"u","n","i","v","e","r","s","i","d","a","d">>, <<"v","a","c","u","n","a">>}

GENERIC_WORDS ==
    {<<"a","c","t","u","a","l">>, <<"b","u","s","c","a","r">>,
      <<"c","o","n","s","u","l","t","a","r">>, <<"d","a","m","e">>, <<"d","a","t","o","s">>,
      <<"i","n","f","o","r","m","a","c","i","o","n">>,
      <<"i","n","f","o","r","m","a","c","i","o'","n">>, <<"m","o","s","t","r","a","r">>,
      <<"n","e","c","e","s","i","t","o">>, <<"q","u","i","e","r","o">>,
      <<"u","l","t","i","m","o">>, <<"v","e","r">>, <<"u'","l","t","i","m","o">>}

SPECIFIC_INDICATORS ==
    {<<"a","e","r","o","p","u","e","r","t","o">>, <<"c","a","n","a","s","t","a">>,
      <<"c","e","n","s","o">>, <<"c","o","m","b","u","s","t","i","b","l","e">>,
      <<"c","o","n","s","t","r","u","c","c","i","o","n">>,
      <<"c","o","n","s","t","r","u","c","c","i","o'","n">>,
      <<"d","e","s","e","m","p","l","e","o">>, <<"d","o","l","a","r">>,
      <<"d","o'","l","a","r">>, <<"e","c","o","n","o","m","i","c","o">>,
      <<"e","c","o","n","o'","m","i","c","o">>, <<"e","c","v">>, <<"e","m","a","e">>,
      <<"e","m","p","l","e","o">>, <<"e","p","h">>, <<"i","e","r","i","c">>,
      <<"i","n","d","i","g","e","n","c","i","a">>, <<"i","n","f","l","a","c","i","o","n">>,
      <<"i","n","f","l","a","c","i","o'","n">>, <<"i","p","c">>,
      <<"i","p","i","c","o","r","r">>, <<"o","e","d","e">>,
      <<"p","a","t","e","n","t","a","m","i","e","n","t","o">>, <<"p","b","g">>,
      <<"p","o","b","l","a","c","i","o","n">>, <<"p","o","b","l","a","c","i","o'","n">>,
      <<"p","o","b","r","e","z","a">>, <<"r","i","p","t","e">>,
      <<"s","a","l","a","r","i","o">>, <<"s","a","l","a","r","i","o","s">>,
      <<"s","e","m","a","f","o","r","o">>, <<"s","e","m","a'","f","o","r","o">>,
      <<"s","i","p","a">>, <<"s","m","v","m">>,
      <<"s","u","p","e","r","m","e","r","c","a","d","o">>, <<"t","r","a","b","a","j","o">>}

\* the texts each conceptual pattern matches between word boundaries
CONCEPTUAL_PATTERNS ==
    <<{<<"q","u","e"," ","e","s">>, <<"q","u","e'"," ","e","s">>},
      {<<"q","u","e"," ","s","i","g","n","i","f","i","c","a">>,
        <<"q","u","e'"," ","s","i","g","n","i","f","i","c","a">>},
      {<<"q","u","e"," ","s","o","n">>, <<"q","u","e'"," ","s","o","n">>},
      {<<"d","e","f","i","n","i","c","i","o","n">>,
        <<"d","e","f","i","n","i","c","i","o'","n">>},
      {<<"d","e","f","i","n","i","r">>},
      {<<"e","x","p","l","i","c","a">>, <<"e","x","p","l","i","c","a","r">>},
      {<<"e","x","p","l","i","c","a","m","e">>, <<"e","x","p","l","i'","c","a","m","e">>},
      {<<"q","u","e"," ","q","u","i","e","r","e"," ","d","e","c","i","r">>,
        <<"q","u","e'"," ","q","u","i","e","r","e"," ","d","e","c","i","r">>},
      {<<"c","o","m","o"," ","f","u","n","c","i","o","n","a">>,
        <<"c","o'","m","o"," ","f","u","n","c","i","o","n","a">>},
      {<<"c","o","m","o"," ","s","e"," ","c","a","l","c","u","l","a">>,
        <<"c","o'","m","o"," ","s","e"," ","c","a","l","c","u","l","a">>},
      {<<"p","a","r","a"," ","q","u","e"," ","s","i","r","v","e">>,
        <<"p","a","r","a"," ","q","u","e'"," ","s","i","r","v","e">>},
      {<<"c","u","a","l"," ","e","s"," ","l","a"," ","d","i","f","e","r","e","n","c","i","a">>,
        <<"c","u","a'","l"," ","e","s"," ","l","a"," ","d","i","f","e","r","e","n","c","i","a">>},
      {<<"q","u","e"," ","m","i","d","e">>, <<"q","u","e'"," ","m","i","d","e">>},
      {<<"q","u","e"," ","i","n","c","l","u","y","e">>,
        <<"q","u","e'"," ","i","n","c","l","u","y","e">>},
      {<<"s","i","g","n","i","f","i","c","a","d","o">>},
      {<<"c","o","n","c","e","p","t","o">>}>>

\* the texts each data-request pattern matches between word boundaries
DATA_REQUEST_PATTERNS ==
    <<{<<"d","a","m","e">>},
      {<<"m","u","e","s","t","r","a","m","e">>, <<"m","u","e'","s","t","r","a","m","e">>},
      {<<"v","e","r">>},
      {<<"u","l","t","i","m","o">>, <<"u","l","t","i","m","o","s">>,
        <<"u'","l","t","i","m","o">>, <<"u'","l","t","i","m","o","s">>},
      {<<"a","c","t","u","a","l">>},
      {<<"d","a","t","o","s"," ","d","e">>},
      {<<"v","a","l","o","r">>},
      {<<"c","u","a","n","t","o">>},
      {<<"c","u","a","n","t","o">>, <<"c","u","a'","n","t","o">>},
      {<<"c","o","t","i","z","a","c","i","o","n">>,
        <<"c","o","t","i","z","a","c","i","o'","n">>},
      {<<"p","r","e","c","i","o">>},
      {<<"t","a","s","a">>},
      {<<"p","o","b","l","a","c","i","o","n">>, <<"p","o","b","l","a","c","i","o'","n">>},
      {<<"e","s","t","a","d","i'","s","t","i","c","a">>},
      {<<"n","u","m","e","r","o">>, <<"n","u'","m","e","r","o">>},
      {<<"p","o","r","c","e","n","t","a","j","e">>},
      {<<"v","a","r","i","a","c","i","o","n">>, <<"v","a","r","i","a","c","i","o'","n">>,
        <<"v","a","r","i'","a","c","i","o","n">>, <<"v","a","r","i'","a","c","i","o'","n">>},
      {<<"c","u","a","n","t","o">>, <<"c","u","a","n","t","o","s">>},
      {<<"c","u","a","n","t","o">>, <<"c","u","a","n","t","o","s">>,
        <<"c","u","a'","n","t","o">>, <<"c","u","a'","n","t","o","s">>}>>

\* an intent result; confianza is only logged by the orchestrator
IntentResult(intencion, tema, entidades, es_comparacion) ==
    [intencion |-> intencion, tema |-> tema, entidades |-> entidades,
     es_comparacion |-> es_comparacion]

\* LLMIntentClassifier._default_response
_default_response(intencion) == IntentResult(intencion, NoTool, <<>>, FALSE)

\* the topic of the first entry of topic_keywords among hits
first_topic(hits) == IF hits = {} THEN NoTool ELSE topic_keywords[SetMin(hits)].topic

\* LLMIntentClassifier._extract_topic: the first topic with a keyword in msg
_extract_topic(msg) ==
    first_topic({i \in 1..Len(topic_keywords) : AnyIn(topic_keywords[i].keywords, msg)})

\* LLMIntentClassifier._extract_entities: the places found, in list order
_extract_entities(msg) ==
    LET contained(loc) == Contains(Lower(msg), loc)
    IN  SelectSeq(entity_locations, contained)

\* _basic_classify on msg, the message lowered and stripped
keyword_intent(msg) ==
    IF AnyIn(<<<<"h","o","l","a">>, <<"b","u","e","n","o","s">>, <<"b","u","e","n","a","s">>, <<"h","e","y">>, <<"h","i">>>>, msg)
    THEN _default_response("saludo")
    ELSE IF AnyIn(<<<<"g","r","a","c","i","a","s">>, <<"c","h","a","u">>, <<"a","d","i","o","s">>, <<"h","a","s","t","a">>>>, msg)
    THEN _default_response("despedida")
    ELSE IF AnyIn(<<<<"a","y","u","d","a">>, <<"h","e","l","p">>, <<"o","p","c","i","o","n","e","s">>, <<"q","u","e"," ","p","o","d","e","s">>, <<"q","u","e"," ","p","u","e","d","e","s">>>>, msg)
    THEN _default_response("ayuda")
    ELSE IF AnyIn(<<<<"q","u","e"," ","e","s">>, <<"q","u","e'"," ","e","s">>, <<"c","o","m","o"," ","f","u","n","c","i","o","n","a">>, <<"c","o'","m","o"," ","f","u","n","c","i","o","n","a">>,
                    <<"s","i","g","n","i","f","i","c","a">>>>, msg)
    THEN IntentResult("pregunta_conceptual", _extract_topic(msg), <<>>, FALSE)
    ELSE IF AnyIn(domain_topics, msg)
    THEN IntentResult("consulta_datos", _extract_topic(msg), _extract_entities(msg),
                      AnyIn(<<<<"c","o","m","p","a","r">>, <<"v","s">>, <<"e","n","t","r","e">>, <<" ","y"," ">>>>, msg))
    ELSE _default_response("fuera_de_dominio")

\* LLMIntentClassifier._basic_classify
_basic_classify(user_message) == keyword_intent(Strip(Lower(user_message)))

\* the key the classifier caches a message under
cache_key(user_message) == Strip(Lower(user_message))

\* re.findall(r'\w+', s), as a set: the maximal runs of word characters
WordRuns(s) ==
    LET starts == {i \in 1..Len(s) : IsWordChar(s[i]) /\ (i = 1 \/ ~ IsWordChar(s[i - 1]))}
        stop(i) == SetMin({j \in i..Len(s) : j = Len(s) \/ ~ IsWordChar(s[j + 1])})
    IN  {SubSeq(s, i, stop(i)) : i \in starts}

\* is_domain_relevant on the three sets of matches
relevant_matches(out_of_domain_matches, specific_matches, domain_matches) ==
    IF out_of_domain_matches # {} /\ specific_matches = {} THEN FALSE
    ELSE IF domain_matches # {} /\ domain_matches \subseteq GENERIC_WORDS THEN FALSE
    ELSE domain_matches # {}

\* is_domain_relevant on the words of the query
relevant_words(query_words) ==
    relevant_matches(query_words \cap OUT_OF_DOMAIN_KEYWORDS,
                     query_words \cap SPECIFIC_INDICATORS,
                     query_words \cap DOMAIN_KEYWORDS)

\* intent_classifier.is_domain_relevant
is_domain_relevant(query) == relevant_words(WordRuns(Lower(query)))

\* the number of patterns of the list that re.search finds in the text, its
\* white space collapsed
FlatPatternHits(patterns, flat) ==
    Cardinality({i \in 1..Len(patterns) : \E lit \in patterns[i] : WholeWord(flat, lit)})

\* the number of patterns of the list that re.search finds in text
PatternHits(patterns, text) == FlatPatternHits(patterns, CollapseWS(text))

\* min(score / (total_score + 1), 1.0)
capped_confidence(n, total_score) ==
    IF n > total_score + 1 THEN <<1, 1>> ELSE <<n, total_score + 1>>

\* classify_intent on the two scores
judged_intent(conceptual_score, data_score) ==
    IF conceptual_score + data_score = 0 THEN [kind |-> "ambiguous", confidence |-> <<1, 2>>]
    ELSE IF conceptual_score > data_score
    THEN [kind |-> "conceptual",
          confidence |-> capped_confidence(conceptual_score, conceptual_score + data_score)]
    ELSE IF data_score > conceptual_score
    THEN [kind |-> "data",
          confidence |-> capped_confidence(data_score, conceptual_score + data_score)]
    ELSE [kind |-> "ambiguous", confidence |-> <<1, 2>>]

\* a question that ends in "?" and asks "qué"
asks_what(query, query_lower) ==
    /\ EndsWith(Strip(query), <<"?">>)
    /\ (WholeWord(query_lower, <<"q","u","e">>) \/ WholeWord(query_lower, <<"q","u","e'">>))

\* classify_intent on the lowered and stripped query
scored_intent(query, query_lower) ==
    judged_intent(2 * PatternHits(CONCEPTUAL_PATTERNS, query_lower)
                        + (IF asks_what(query, query_lower) THEN 1 ELSE 0),
                  PatternHits(DATA_REQUEST_PATTERNS, query_lower))

\* intent_classifier.classify_intent: the kind, and the confidence as a fraction
classify_intent(query) == scored_intent(query, Strip(Lower(query)))

\* conceptual with confidence >= 0.4
confident_conceptual(r) == r.kind = "conceptual" /\ ~ FracLess(r.confidence, <<2, 5>>)

\* intent_classifier.is_conceptual_question
is_conceptual_question(query) == confident_conceptual(classify_intent(query))

-----------------------------------------------------------------------------
(* LearningMemory: the table of learned answers and its three operations.    *)
(* A memory is [rows, down]: the rows of chatbot_learned_responses in id     *)
(* order, and whether a connection to its database raises.                   *)

\* one row; question_key and the two dates are written and never read back
MemoryRow(id, question, response, category, is_conceptual, quality_score, use_count) ==
    [id |-> id, question |-> question, normalized_question |-> _normalize_text(question),
     response |-> response, category |-> category, is_conceptual |-> is_conceptual,
     quality_score |-> quality_score, use_count |-> use_count]

\* the Optional[...] None of find_similar
NoMatch == [id |-> 0]

\* LearningMemory.similarity_threshold, 0.80
similarity_threshold == <<4, 5>>

\* ORDER BY use_count DESC: the rows picked, most used first
RECURSIVE by_use_count(_, _)
by_use_count(rows, picked) ==
    IF picked = {} THEN <<>>
    ELSE LET first == CHOOSE i \in picked :
                        \A j \in picked : \/ rows[i].use_count > rows[j].use_count
                                          \/ (rows[i].use_count = rows[j].use_count /\ i <= j)
         IN  <<rows[first]>> \o by_use_count(rows, picked \ {first})

RECURSIVE best_candidate(_, _, _, _, _)

\* one round of the loop: the similarity of the first candidate against the
\* best so far
compare_candidate(question, candidates, min_similarity, best_match, best_similarity,
                  similarity) ==
    IF FracLess(best_similarity, similarity) /\ ~ FracLess(similarity, min_similarity)
    THEN best_candidate(question, Tail(candidates), min_similarity, Head(candidates),
                        similarity)
    ELSE best_candidate(question, Tail(candidates), min_similarity, best_match,
                        best_similarity)

\* the loop over the candidates: the best one at or above min_similarity
best_candidate(question, candidates, min_similarity, best_match, best_similarity) ==
    IF candidates = <<>> THEN best_match
    ELSE compare_candidate(question, candidates, min_similarity, best_match, best_similarity,
                           _calculate_similarity(question, Head(candidates).question))

\* normalized_question LIKE %word%: an underscore of the word stands for any
\* one character
Like(text, word) ==
    \E i \in 1..(Len(text) - Len(word) + 1) :
        \A k \in 1..Len(word) : word[k] = "_" \/ text[i + k - 1] = word[k]

\* normalized.split()[:3]
first_words(words) == SubSeq(words, 1, IF Len(words) < 3 THEN Len(words) ELSE 3)

\* the rows whose normalized question is LIKE one of the words
like_rows(self, words) ==
    {i \in 1..Len(self.rows) :
        \E k \in 1..Len(words) : Like(self.rows[i].normalized_question, words[k])}

\* the fuzzy search of find_similar: the rows that share one of the first
\* three words, compared one by one
fuzzy_match(self, question, min_similarity, words) ==
    IF words = <<>> THEN NoMatch
    ELSE best_candidate(question, by_use_count(self.rows, like_rows(self, first_words(words))),
                        min_similarity, NoMatch, <<0, 1>>)

\* a search that goes to the fuzzy comparison at once
fuzzy_only(self, question, min_similarity, normalized, exact) ==
    fuzzy_match(self, question, min_similarity, Split(normalized))

\* the exact match on the normalized question, before the fuzzy search
exact_match(self, question, min_similarity, normalized, exact) ==
    IF exact # {} THEN self.rows[SetMin(exact)]
    ELSE fuzzy_match(self, question, min_similarity, Split(normalized))

\* find_similar on the normalized question
search_rows(self, question, min_similarity, normalized) ==
    exact_match(self, question, min_similarity, normalized,
                {i \in 1..Len(self.rows) : self.rows[i].normalized_question = normalized})

\* LearningMemory.find_similar: the row found, or NoMatch
find_similar(self, question, min_similarity) ==
    IF self.down THEN NoMatch
    ELSE search_rows(self, question, min_similarity, _normalize_text(question))

\* UPDATE ... SET use_count = use_count + 1 WHERE id = entry_id
count_use(self, entry_id) ==
    [self EXCEPT !.rows = [i \in 1..Len(self.rows) |->
        IF self.rows[i].id = entry_id
        THEN [self.rows[i] EXCEPT !.use_count = @ + 1]
        ELSE self.rows[i]]]

\* get_response on the row found
used_match(self, match) ==
    IF match = NoMatch THEN [response |-> <<>>, memory |-> self]
    ELSE [response |-> match.response, memory |-> count_use(self, match.id)]

\* LearningMemory.get_response: the text returned (<<>> for None) and the
\* memory afterwards
get_response(self, question) ==
    used_match(self, find_similar(self, question, similarity_threshold))

\* UPDATE ... SET response, quality_score, use_count = use_count + 1
replaced_rows(self, existing, response, quality_score) ==
    [i \in 1..Len(self.rows) |->
        IF self.rows[i].id = existing.id
        THEN [self.rows[i] EXCEPT !.response = response,
                                  !.quality_score = quality_score,
                                  !.use_count = @ + 1]
        ELSE self.rows[i]]

\* learn, existing being what find_similar found at 0.90
store_answer(self, question, response, category, is_conceptual, quality_score, existing) ==
    IF existing # NoMatch
    THEN IF FracLess(existing.quality_score, quality_score)
         THEN [self EXCEPT !.rows = replaced_rows(self, existing, response, quality_score)]
         ELSE count_use(self, existing.id)
    ELSE [self EXCEPT !.rows = Append(@,
            MemoryRow(Len(self.rows) + 1, question, response, category,
                      is_conceptual, quality_score, 1))]

\* LearningMemory.learn: the memory afterwards
learn(self, question, response, category, is_conceptual, quality_score) ==
    IF self.down THEN self
    ELSE store_answer(self, question, response, category, is_conceptual, quality_score,
                find_similar(self, question, <<9, 10>>))

-----------------------------------------------------------------------------
(* The fixed texts of the chat endpoint (api.py).                            *)

\* the greeting for a message that also asks what the assistant can do
welcome_capabilities ==
    <<"<ix>","H","o","l","a","!"," ","<wave>"," ","S","o","y"," ","e","l"," ","a","s","i","s",
      "t","e","n","t","e"," ","v","i","r","t","u","a","l"," ","d","e","l"," ","*","*",
      "I","n","s","t","i","t","u","t","o"," ","P","r","o","v","i","n","c","i","a","l",
      " ","d","e"," ","E","s","t","a","d","i'","s","t","i","c","a"," ","y"," ","C","e",
      "n","s","o","s"," ","d","e"," ","C","o","r","r","i","e","n","t","e","s","*","*",
      " ","(","I","P","E","C","D",")",".","<nl>","<nl>","*","*","<iq>","Q","u","e'"," ","p","u",
      "e","d","o"," ","h","a","c","e","r"," ","p","o","r"," ","v","o","s","?","*","*",
      "<nl>","<nl>","<up>"," ","*","*","D","a","t","o","s"," ","e","c","o","n","o'","m","i","c",
      "o","s","*","*"," ","-"," ","I","P","C",","," ","i","n","f","l","a","c","i","o'",
      "n",","," ","c","o","t","i","z","a","c","i","o'","n"," ","d","e","l"," ","d","o'",
      "l","a","r"," ","(","b","l","u","e",","," ","o","f","i","c","i","a","l",","," ",
      "M","E","P",")",","," ","c","a","n","a","s","t","a"," ","b","a'","s","i","c","a",
      ","," ","s","e","m","a'","f","o","r","o"," ","e","c","o","n","o'","m","i","c","o",
      ".","<nl>","<nl>","<tie>"," ","*","*","E","m","p","l","e","o","*","*"," ","-"," ","T","a",
      "s","a","s"," ","d","e"," ","e","m","p","l","e","o","/","d","e","s","e","m","p",
      "l","e","o"," ","(","E","P","H",")",","," ","e","m","p","l","e","o"," ","r","e",
      "g","i","s","t","r","a","d","o"," ","(","S","I","P","A",")",","," ","E","n","c",
      "u","e","s","t","a"," ","d","e"," ","C","a","l","i","d","a","d"," ","d","e"," ",
      "V","i","d","a",".","<nl>","<nl>","<people>"," ","*","*","D","e","m","o","g","r","a","f","i'",
      "a","*","*"," ","-"," ","P","o","b","l","a","c","i","o'","n"," ","p","o","r"," ",
      "m","u","n","i","c","i","p","i","o"," ","s","e","g","u'","n"," ","c","e","n","s",
      "o","s",","," ","c","o","m","p","a","r","a","t","i","v","a","s"," ","e","n","t",
      "r","e"," ","l","o","c","a","l","i","d","a","d","e","s",".","<nl>","<nl>","*","*","E",
      "j","e","m","p","l","o","s"," ","d","e"," ","p","r","e","g","u","n","t","a","s",
      ":","*","*","<nl>","-"," ","_","<dq>","<iq>","C","u","a'","n","t","o","s"," ","h","a","b",
      "i","t","a","n","t","e","s"," ","t","i","e","n","e"," ","G","o","y","a","?","<dq>",
      "_","<nl>","-"," ","_","<dq>","D","a","m","e"," ","l","a"," ","c","o","t","i","z","a",
      "c","i","o'","n"," ","d","e","l"," ","d","o'","l","a","r","<dq>","_","<nl>","-"," ","_",
      "<dq>","<iq>","C","u","a'","l"," ","e","s"," ","l","a"," ","t","a","s","a"," ","d","e",
      " ","d","e","s","e","m","p","l","e","o","?","<dq>","_","<nl>","<nl>","<iq>","Q","u","e'"," ",
      "n","e","c","e","s","i","t","a'","s"," ","s","a","b","e","r","?">>

\* the plain greeting
welcome_response ==
    <<"<wave>"," ","<ix>","H","o","l","a","!"," ","S","o","y"," ","e","l"," ","a","s","i","s",
      "t","e","n","t","e"," ","d","e","l"," ","*","*","I","P","E","C","D","*","*"," ",
      "(","I","n","s","t","i","t","u","t","o"," ","P","r","o","v","i","n","c","i","a",
      "l"," ","d","e"," ","E","s","t","a","d","i'","s","t","i","c","a"," ","y"," ","C",
      "e","n","s","o","s"," ","d","e"," ","C","o","r","r","i","e","n","t","e","s",")",
      ".","<nl>","<nl>","P","u","e","d","o"," ","a","y","u","d","a","r","t","e"," ","c","o",
      "n"," ","i","n","f","o","r","m","a","c","i","o'","n"," ","s","o","b","r","e",":",
      "<nl>","-"," ","<up>"," ","P","r","e","c","i","o","s",","," ","i","n","f","l","a","c",
      "i","o'","n"," ","y"," ","d","o'","l","a","r","<nl>","-"," ","<tie>"," ","E","m","p","l",
      "e","o"," ","y"," ","t","r","a","b","a","j","o","<nl>","-"," ","<people>"," ","P","o","b",
      "l","a","c","i","o'","n"," ","y"," ","c","e","n","s","o","<nl>","<nl>","<iq>","E","n"," ",
      "q","u","e'"," ","t","e"," ","p","u","e","d","o"," ","a","y","u","d","a","r","?">>

farewell_response ==
    <<"<smile>"," ","<ix>","D","e"," ","n","a","d","a","!"," ","F","u","e"," ","u","n"," ","p",
      "l","a","c","e","r"," ","a","y","u","d","a","r","t","e",".","<nl>","<nl>","S","i"," ",
      "n","e","c","e","s","i","t","a","s"," ","m","a'","s"," ","i","n","f","o","r","m",
      "a","c","i","o'","n"," ","s","o","b","r","e"," ","e","s","t","a","d","i'","s","t",
      "i","c","a","s"," ","d","e"," ","C","o","r","r","i","e","n","t","e","s",","," ",
      "e","s","t","a","r","e'"," ","a","q","u","i'"," ","p","a","r","a"," ","a","y","u",
      "d","a","r","t","e",".","<nl>","<nl>","<ix>","H","a","s","t","a"," ","p","r","o","n","t",
      "o","!"," ","<wave>">>

help_response ==
    <<"<ix>","H","o","l","a","!"," ","<wave>"," ","S","o","y"," ","e","l"," ","a","s","i","s",
      "t","e","n","t","e"," ","v","i","r","t","u","a","l"," ","d","e","l"," ","*","*",
      "I","n","s","t","i","t","u","t","o"," ","P","r","o","v","i","n","c","i","a","l",
      " ","d","e"," ","E","s","t","a","d","i'","s","t","i","c","a"," ","y"," ","C","e",
      "n","s","o","s"," ","d","e"," ","C","o","r","r","i","e","n","t","e","s","*","*",
      " ","(","I","P","E","C","D",")",".","<nl>","<nl>","*","*","<iq>","Q","u","e'"," ","p","u",
      "e","d","o"," ","h","a","c","e","r"," ","p","o","r"," ","v","o","s","?","*","*",
      "<nl>","<nl>","<up>"," ","*","*","C","o","n","s","u","l","t","a","r","t","e"," ","d","a",
      "t","o","s"," ","e","c","o","n","o'","m","i","c","o","s","*","*"," ","-"," ","T",
      "e"," ","p","u","e","d","o"," ","d","a","r"," ","i","n","f","o","r","m","a","c",
      "i","o'","n"," ","s","o","b","r","e"," ","e","l"," ","I","P","C"," ","(","i","n",
      "f","l","a","c","i","o'","n",")",","," ","c","o","t","i","z","a","c","i","o'","n",
      " ","d","e","l"," ","d","o'","l","a","r"," ","(","b","l","u","e",","," ","o","f",
      "i","c","i","a","l",","," ","M","E","P",")",","," ","l","a"," ","c","a","n","a",
      "s","t","a"," ","b","a'","s","i","c","a",","," ","y"," ","e","l"," ","s","e","m",
      "a'","f","o","r","o"," ","e","c","o","n","o'","m","i","c","o"," ","d","e"," ","C",
      "o","r","r","i","e","n","t","e","s",".","<nl>","<nl>","<tie>"," ","*","*","I","n","f","o",
      "r","m","a","c","i","o'","n"," ","s","o","b","r","e"," ","e","m","p","l","e","o",
      "*","*"," ","-"," ","T","a","s","a","s"," ","d","e"," ","e","m","p","l","e","o",
      " ","y"," ","d","e","s","e","m","p","l","e","o"," ","d","e"," ","l","a"," ","E",
      "P","H",","," ","d","a","t","o","s"," ","d","e","l"," ","S","I","P","A"," ","s",
      "o","b","r","e"," ","e","m","p","l","e","o"," ","r","e","g","i","s","t","r","a",
      "d","o",","," ","y"," ","l","a"," ","E","n","c","u","e","s","t","a"," ","d","e",
      " ","C","a","l","i","d","a","d"," ","d","e"," ","V","i","d","a",".","<nl>","<nl>","<people>",
      " ","*","*","D","a","t","o","s"," ","d","e","m","o","g","r","a'","f","i","c","o",
      "s","*","*"," ","-"," ","P","o","b","l","a","c","i","o'","n"," ","p","o","r"," ",
      "m","u","n","i","c","i","p","i","o"," ","y"," ","d","e","p","a","r","t","a","m",
      "e","n","t","o"," ","s","e","g","u'","n"," ","l","o","s"," ","c","e","n","s","o",
      "s",","," ","c","o","m","p","a","r","a","t","i","v","a","s"," ","e","n","t","r",
      "e"," ","l","o","c","a","l","i","d","a","d","e","s",".","<nl>","<nl>","<lens>"," ","*","*",
      "H","a","c","e","r"," ","c","o","m","p","a","r","a","c","i","o","n","e","s","*",
      "*"," ","-"," ","P","o","d","e'","s"," ","p","e","d","i","r","m","e"," ","q","u",
      "e"," ","c","o","m","p","a","r","e"," ","d","a","t","o","s"," ","e","n","t","r",
      "e"," ","d","i","s","t","i","n","t","a","s"," ","l","o","c","a","l","i","d","a",
      "d","e","s"," ","o"," ","p","e","r","i'","o","d","o","s"," ","d","e"," ","t","i",
      "e","m","p","o",".","<nl>","<nl>","*","*","E","j","e","m","p","l","o","s"," ","d","e",
      " ","p","r","e","g","u","n","t","a","s"," ","q","u","e"," ","p","u","e","d","o",
      " ","r","e","s","p","o","n","d","e","r",":","*","*","<nl>","-"," ","_","<dq>","<iq>","C",
      "u","a'","n","t","o","s"," ","h","a","b","i","t","a","n","t","e","s"," ","t","i",
      "e","n","e"," ","G","o","y","a","?","<dq>","_","<nl>","-"," ","_","<dq>","D","a","m","e",
      " ","l","a"," ","c","o","t","i","z","a","c","i","o'","n"," ","d","e","l"," ","d",
      "o'","l","a","r"," ","b","l","u","e","<dq>","_","<nl>","-"," ","_","<dq>","C","o","m","p",
      "a","r","a","r"," ","p","o","b","l","a","c","i","o'","n"," ","d","e"," ","C","o",
      "r","r","i","e","n","t","e","s"," ","y"," ","R","e","s","i","s","t","e","n","c",
      "i","a","<dq>","_","<nl>","-"," ","_","<dq>","<iq>","C","u","a'","l"," ","e","s"," ","l","a",
      " ","t","a","s","a"," ","d","e"," ","d","e","s","e","m","p","l","e","o","?","<dq>",
      "_","<nl>","<nl>","<iq>","E","n"," ","q","u","e'"," ","t","e"," ","p","u","e","d","o"," ",
      "a","y","u","d","a","r"," ","h","o","y","?">>

out_of_domain_response ==
    <<"L","o"," ","s","i","e","n","t","o",","," ","p","e","r","o"," ","s","o","l","o",
      " ","p","u","e","d","o"," ","a","y","u","d","a","r","t","e"," ","c","o","n"," ",
      "i","n","f","o","r","m","a","c","i","o'","n"," ","e","s","t","a","d","i'","s","t",
      "i","c","a"," ","d","e","l"," ","I","P","E","C","D"," ","(","I","n","s","t","i",
      "t","u","t","o"," ","P","r","o","v","i","n","c","i","a","l"," ","d","e"," ","E",
      "s","t","a","d","i'","s","t","i","c","a"," ","y"," ","C","e","n","s","o","s"," ",
      "d","e"," ","C","o","r","r","i","e","n","t","e","s",")",".","<nl>","<nl>","P","u","e",
      "d","o"," ","a","y","u","d","a","r","t","e"," ","c","o","n",":","<nl>","-"," ","<chart>",
      " ","*","*","P","r","e","c","i","o","s"," ","e"," ","I","n","f","l","a","c","i",
      "o'","n","*","*"," ","(","I","P","C",","," ","c","a","n","a","s","t","a"," ","b",
      "a'","s","i","c","a",")","<nl>","-"," ","<money>"," ","*","*","C","o","t","i","z","a","c",
      "i","o'","n"," ","d","e","l"," ","D","o'","l","a","r","*","*"," ","(","b","l","u",
      "e",","," ","o","f","i","c","i","a","l",","," ","M","E","P",","," ","C","C","L",
      ")","<nl>","-"," ","<tie>"," ","*","*","E","m","p","l","e","o"," ","y"," ","T","r","a",
      "b","a","j","o","*","*"," ","(","E","P","H",","," ","S","I","P","A",","," ","t",
      "a","s","a","s"," ","d","e"," ","e","m","p","l","e","o",")","<nl>","-"," ","<light>"," ",
      "*","*","S","e","m","a'","f","o","r","o"," ","E","c","o","n","o'","m","i","c","o",
      "*","*"," ","(","i","n","d","i","c","a","d","o","r","e","s"," ","d","e"," ","C",
      "o","r","r","i","e","n","t","e","s",")","<nl>","-"," ","<people>"," ","*","*","P","o","b",
      "l","a","c","i","o'","n"," ","y"," ","C","e","n","s","o","*","*"," ","(","d","a",
      "t","o","s"," ","d","e","m","o","g","r","a'","f","i","c","o","s",")","<nl>","<nl>","<iq>",
      "E","n"," ","q","u","e'"," ","t","e","m","a"," ","p","u","e","d","o"," ","a","y",
      "u","d","a","r","t","e","?">>

\* the menu shown when the tree gives none
fallback_menu ==
    <<"1","."," ","<chart>"," ","D","a","t","o","s"," ","E","c","o","n","o'","m","i","c","o",
      "s","<nl>","2","."," ","<people>"," ","D","a","t","o","s"," ","S","o","c","i","a","l","e",
      "s","<nl>","3","."," ","<info>","<vs16>"," ","I","n","f","o","r","m","a","c","i","o'","n"," ",
      "G","e","n","e","r","a","l">>

hello_again ==
    <<"<wave>"," ","<ix>","H","o","l","a"," ","d","e"," ","n","u","e","v","o","!"," ","<iq>","E",
      "n"," ","q","u","e'"," ","p","u","e","d","o"," ","a","y","u","d","a","r","t","e",
      "?","<nl>","<nl>">>

\* the apology of a turn whose LLM gave no answer
error_msg ==
    <<"L","o"," ","s","i","e","n","t","o",","," ","h","u","b","o"," ","u","n"," ","e",
      "r","r","o","r"," ","a","l"," ","p","r","o","c","e","s","a","r"," ","t","u"," ",
      "s","o","l","i","c","i","t","u","d","."," ","P","o","r"," ","f","a","v","o","r",
      " ","i","n","t","e","n","t","a"," ","d","e"," ","n","u","e","v","o",".">>

-----------------------------------------------------------------------------
(* The chat endpoint (api.py, chat_endpoint).  A turn t carries the state    *)
(* the handler reads and writes, t.s = [menu_tree, node, history, messages,  *)
(* category, memory, cache], the user_input it works on, the response, and   *)
(* what it ran: the components (ran), the executor calls (tools) and the     *)
(* requests to a language model (llm), in order.  env is what the process    *)
(* was started with: the executor's database, whether an OpenAI client and   *)
(* whether the learned-answer memory are configured.  t.detected and         *)
(* t.s.topic keep the value of new_category, a local of the handler: the     *)
(* category detected in the turn, and the last one detected in the session.  *)

Msg(role, content) == [role |-> role, content |-> content]

\* the seed message of a session (its long prompt is not read by the code)
system_message == Msg("system", <<"<system prompt>">>)

Ran(t, component) == [t EXCEPT !.ran = @ \cup {component}]

\* the response is set and the handler returns
Respond(t, text) == [t EXCEPT !.response = text, !.done = TRUE, !.said = TRUE]

\* the two appends to chat_messages[session_id] before a return
Say(t, text) ==
    Respond([t EXCEPT !.s.messages = @ \o <<Msg("user", t.user_input), Msg("assistant", text)>>],
            text)

\* the outer "except Exception": the text of the exception goes to the user
ErrorPrefix ==
    <<"L","o"," ","s","i","e","n","t","o",","," ","h","u","b","o"," ","u","n"," ","e",
          "r","r","o","r"," ","a","l"," ","p","r","o","c","e","s","a","r"," ","t","u"," ",
          "s","o","l","i","c","i","t","u","d",":"," ">>

Raise(t, exception_text) == Respond(t, ErrorPrefix \o exception_text)

\* str(e) of the ValueError of int()
InvalidLiteral(s) == <<"i","n","v","a","l","i","d"," ","l","i","t","e","r","a","l"," ","f","o","r"," ",
      "i","n","t","(",")"," ","w","i","t","h"," ","b","a","s","e"," ","1","0",":"," ",
      "'">> \o s \o <<"'">>

\* menu_state["current_menu_node_id"] = id, and the id joins menu_history
Navigate(t, node_id) ==
    [t EXCEPT !.s.node = node_id,
              !.s.history = IF \E i \in 1..Len(@) : @[i] = node_id THEN @ ELSE Append(@, node_id)]

\* chat_messages[session_id] = [system_msg], where it holds more
ClearMessages(t) ==
    [t EXCEPT !.s.messages = IF Len(@) > 1 THEN <<@[1]>> ELSE @]

\* ResponseEnricher.enrich asks the model: a client is set, and the data are
\* neither short nor an error
enricher_asks(data_response, client) ==
    /\ client
    /\ ~ (Len(data_response) < 50 \/ Contains(data_response, <<"E","r","r","o","r">>)
            \/ Contains(data_response, <<"L","o"," ","s","i","e","n","t","o">>))

\* ResponseEnricher.enrich, llm_text being what the model answers (<<>>: nothing)
enrich(data_response, client, llm_text) ==
    IF enricher_asks(data_response, client) /\ llm_text # <<>> THEN llm_text
    ELSE data_response

\* nothing is to be saved to the learned-answer memory
NoSave == [category |-> NoneId, is_conceptual |-> FALSE, wanted |-> FALSE]

\* the result of a tool is held for the enricher: the turn is left waiting
\* for the model where the enricher asks it
Returned(t, node, client, save, result) ==
    [t EXCEPT !.ran = @ \cup {"tool"},
              !.tools = Append(@, [tool |-> node.tool, args |-> tool_args_of(node)]),
              !.response = result, !.done = TRUE, !.said = FALSE,
              !.enrich = enricher_asks(result, client), !.save = save]

\* tool_executor.execute(node.tool, node.tool_args or {}) and what follows it
\* at every call site: the result goes through the enricher where the caller
\* enriches (client), is said to the user and returned
RunTool(t, env, node, client, save) ==
    Returned(t, node, client, save, execute(env.db, node.tool, tool_args_of(node)))

\* the menu is the first thing the assistant says in a new session
ShowInitial(t, initial_menu) ==
    Respond([t EXCEPT !.s.messages =
                IF Len(@) = 1 THEN Append(@, Msg("assistant", initial_menu)) ELSE @],
            initial_menu)

\* "if not initial_menu or not initial_menu.strip()"
OrFallback(formatted) == IF Strip(formatted) = <<>> THEN fallback_menu ELSE formatted

\* api.py 526-545: an empty message shows the menu of the root
empty_message(t) == ShowInitial(t, OrFallback(format_menu(t.s.menu_tree, NoneId)))

menu_keywords ==
    {<<"m","e","n","u">>, <<"m","e","n","u'">>, <<"v","o","l","v","e","r">>, <<"i","n","i","c","i","o">>, <<"p","r","i","n","c","i","p","a","l">>, <<"a","t","r","a","s">>, <<"a","t","r","a'","s">>, <<"b","a","c","k">>}

\* the session is back at the root with an empty conversation
AtRoot(t) ==
    [ClearMessages(t) EXCEPT !.s.category = NoTool, !.s.node = root, !.s.history = <<root>>]

\* the menu of the root opens the conversation again
ShowRoot(cleared, initial_menu) ==
    Respond([cleared EXCEPT !.s.messages = Append(@, Msg("assistant", initial_menu))],
            initial_menu)

\* api.py 547-572: a menu keyword brings the session back to the root
back_to_root(t) == ShowRoot(AtRoot(t), hello_again \o format_menu(t.s.menu_tree, root))

invalid_msg(option_number) ==
    <<"O","p","c","i","o'","n"," ">> \o Str(option_number)
        \o <<" ","n","o"," ","v","a'","l","i","d","a","."," ","P","o","r"," ","f","a","v","o",
              "r",","," ","e","l","i","g","e"," ","u","n","a"," ","o","p","c","i","o'","n"," ",
              "d","e","l"," ","m","e","n","u'",".">>

\* the child the number selects under the current node, where it has children
numbered_child(self, current_node_id, current_node, option_number) ==
    IF current_node # NoNode /\ current_node.children # <<>>
    THEN get_child_by_number(self, current_node_id, option_number)
    ELSE NoNode

\* api.py 586-616: the child selected is shown, run or told
selected_child(t, env, option_number, child_node) ==
    IF child_node # NoNode /\ child_node.action = "menu"
    THEN Say(Navigate(t, child_node.id), format_menu(t.s.menu_tree, child_node.id))
    ELSE IF child_node # NoNode /\ child_node.action = "tool" /\ child_node.tool # ""
            /\ is_available(env.db)
    THEN [RunTool(t, env, child_node, env.openai, NoSave) EXCEPT !.tool = child_node.tool]
    ELSE IF child_node # NoNode /\ child_node.action = "info" /\ child_node.info_text # <<>>
    THEN Say(t, child_node.info_text)
    ELSE Say(t, invalid_msg(option_number))

\* api.py 579-585: the number and the child it selects
numbered_selection(t, env, option_number) ==
    selected_child(t, env, option_number,
                   numbered_child(t.s.menu_tree, t.s.node, get_node(t.s.menu_tree, t.s.node),
                                  option_number))

\* api.py 578-616: a message of digits selects a child of the current node
numeric_selection(t, env) ==
    IF IntRaises(t.user_input)
    THEN Raise(Ran(t, "numeric_selection"), InvalidLiteral(t.user_input))
    ELSE numbered_selection(Ran(t, "numeric_selection"), env, int(t.user_input))

\* api.py 627-652: the node found is run, shown or told
found_node(t, env, matched_menu_node) ==
    IF matched_menu_node = NoNode THEN t
    ELSE IF matched_menu_node.action = "tool" /\ matched_menu_node.tool # ""
    THEN IF is_available(env.db)
         THEN [RunTool(t, env, matched_menu_node, env.openai, NoSave)
                  EXCEPT !.tool = matched_menu_node.tool]
         ELSE t
    ELSE IF matched_menu_node.action = "menu"
    THEN Say(Navigate(t, matched_menu_node.id),
             format_menu(t.s.menu_tree, matched_menu_node.id))
    ELSE IF matched_menu_node.action = "info" /\ matched_menu_node.info_text # <<>>
    THEN Say(t, matched_menu_node.info_text)
    ELSE t

\* api.py 622-652: a message that names a node of the tree runs that node
menu_text_search(t, env) ==
    found_node(Ran(t, "find_node_by_keyword"), env,
               find_node_by_keyword(t.s.menu_tree, t.user_input))

\* api.py 516-652: the steps that answer before any intent is classified
menu_shortcuts(t, env) ==
    IF t.user_input = <<>> THEN empty_message(t)
    ELSE IF Strip(Lower(t.user_input)) \in menu_keywords THEN back_to_root(t)
    ELSE IF isdigit(Strip(t.user_input)) THEN numeric_selection(t, env)
    ELSE menu_text_search(t, env)

-----------------------------------------------------------------------------
(* MenuGenerator: the nodes generated from the tables of the database, and   *)
(* enhance_menu_tree, which merges them into a menu tree.                    *)

\* self.nodes[node.id] = node: a dict keeps the place of a key it holds
dict_set(nodes, node) ==
    IF \E i \in 1..Len(nodes) : nodes[i].id = node.id
    THEN [i \in 1..Len(nodes) |-> IF nodes[i].id = node.id THEN node ELSE nodes[i]]
    ELSE Append(nodes, node)

inflacion == <<"i","n","f","l","a","c","i","o","n">>
empleo == <<"e","m","p","l","e","o">>

\* MenuGenerator.CATEGORIES, for the categories the database gives tables of
category_info(category) ==
    IF category = inflacion
    THEN [keywords |-> <<<<"i","n","f","l","a","c","i","o'","n">>, <<"i","n","f","l","a","c","i","o","n">>, <<"i","p","c">>, <<"i'","n","d","i","c","e"," ","d","e"," ","p","r","e","c","i","o","s">>,
                         <<"i","n","d","i","c","e"," ","d","e"," ","p","r","e","c","i","o","s">>, <<"p","r","e","c","i","o","s">>>>,
          title |-> <<"<bag>"," ","I","n","f","l","a","c","i","o'","n"," ","e"," ","I'","n","d","i","c","e",
                "s"," ","d","e"," ","P","r","e","c","i","o","s">>]
    ELSE [keywords |-> <<<<"e","m","p","l","e","o">>, <<"t","r","a","b","a","j","o">>, <<"d","e","s","e","m","p","l","e","o">>, <<"o","c","u","p","a","c","i","o'","n">>, <<"o","c","u","p","a","c","i","o","n">>,
                         <<"p","u","e","s","t","o","s">>, <<"e","m","p","l","e","a","d","o","s">>>>,
          title |-> <<"<case>"," ","E","m","p","l","e","o"," ","y"," ","O","c","u","p","a","c","i","o'","n">>]

\* MenuGenerator._get_friendly_name, for the tables FRIENDLY_NAMES names
friendly_name(table_name) ==
    IF table_name = <<"i","p","c">> THEN <<"I","n","f","l","a","c","i","o'","n"," ","M","e","n","s","u","a","l">> ELSE <<"P","u","e","s","t","o","s"," ","d","e"," ","T","r","a","b","a","j","o">>

category_node_id(category) == <<"c","a","t","_">> \o category
db_node_id(category, db_name) == category_node_id(category) \o <<"_">> \o db_name
table_node_id(category, table_info) ==
    db_node_id(category, table_info.db_name) \o <<"_">> \o table_info.table_name

\* the node of a table: action "query", db_query "db.table"
table_node(category, table_info) ==
    MenuNode(table_node_id(category, table_info), friendly_name(table_info.table_name), <<>>,
             "query", <<>>,
             <<Lower(table_info.table_name), Lower(table_info.db_name)>>
                \o category_info(category).keywords,
             table_info.db_name \o <<".">> \o table_info.table_name, "", <<>>)

\* the keys of children_by_db, in the order the tables name them
db_names(tables) == Dedup([i \in 1..Len(tables) |-> tables[i].db_name])

\* children_by_db[db_name]
tables_of_db(tables, db_name) == SelectSeq(tables, LAMBDA t : t.db_name = db_name)

db_friendly_name(db_name) ==
    IF Contains(Lower(db_name), <<"e","c","o","n","o","m","i","c","o">>) THEN <<"D","a","t","o","s"," ","E","c","o","n","o'","m","i","c","o","s">>
    ELSE <<"D","a","t","o","s"," ","S","o","c","i","a","l","e","s">>

\* the submenu of a database within a category
db_node(category, tables, db_name) ==
    MenuNode(db_node_id(category, db_name), db_friendly_name(db_name), <<>>, "menu",
             [i \in 1..Len(tables_of_db(tables, db_name)) |->
                table_node_id(category, tables_of_db(tables, db_name)[i])],
             <<Lower(db_name)>>, <<>>, "", <<>>)

\* the nodes of one category: its tables, its databases, the category
category_nodes(category, tables) ==
    [i \in 1..Len(tables) |-> table_node(category, tables[i])]
    \o [i \in 1..Len(db_names(tables)) |-> db_node(category, tables, db_names(tables)[i])]
    \o <<MenuNode(category_node_id(category), category_info(category).title, <<>>, "menu",
                  [i \in 1..Len(db_names(tables)) |->
                     db_node_id(category, db_names(tables)[i])],
                  category_info(category).keywords, <<>>, "", <<>>)>>

\* MenuGenerator.generate_menu_nodes: a category without tables gives nothing
RECURSIVE generate_menu_nodes(_)
generate_menu_nodes(categorized_tables) ==
    IF categorized_tables = <<>> THEN <<>>
    ELSE (IF Head(categorized_tables).tables = <<>> THEN <<>>
          ELSE category_nodes(Head(categorized_tables).category,
                              Head(categorized_tables).tables))
         \o generate_menu_nodes(Tail(categorized_tables))

\* the children of a generated node that the tree holds with a db_query
queried_children(nodes, node) ==
    SelectSeq(node.children, LAMBDA c : Lookup(nodes, c) # NoNode /\ Lookup(nodes, c).db_query # <<>>)

\* is_economic, is_social: "economico" is looked for first in every db_query
is_economic(nodes, node) ==
    \E i \in 1..Len(queried_children(nodes, node)) :
        Contains(Lower(Lookup(nodes, queried_children(nodes, node)[i]).db_query), <<"e","c","o","n","o","m","i","c","o">>)

is_social(nodes, node) ==
    \E i \in 1..Len(queried_children(nodes, node)) :
        /\ ~ Contains(Lower(Lookup(nodes, queried_children(nodes, node)[i]).db_query),
                      <<"e","c","o","n","o","m","i","c","o">>)
        /\ Contains(Lower(Lookup(nodes, queried_children(nodes, node)[i]).db_query), <<"s","o","c","i","o">>)

\* the loop over dynamic_nodes: each node goes into the tree, and its id into
\* the list of its kind where the tree held that parent at the start
RECURSIVE merge_nodes(_, _, _, _)
merge_nodes(acc, dynamic_nodes, has_economico, has_socio) ==
    IF dynamic_nodes = <<>> THEN acc
    ELSE merge_nodes(
            [nodes |-> dict_set(acc.nodes, Head(dynamic_nodes)),
             economic |-> IF is_economic(acc.nodes, Head(dynamic_nodes)) /\ has_economico
                          THEN Append(acc.economic, Head(dynamic_nodes).id)
                          ELSE acc.economic,
             social |-> IF /\ ~ (is_economic(acc.nodes, Head(dynamic_nodes)) /\ has_economico)
                           /\ is_social(acc.nodes, Head(dynamic_nodes)) /\ has_socio
                        THEN Append(acc.social, Head(dynamic_nodes).id)
                        ELSE acc.social],
            Tail(dynamic_nodes), has_economico, has_socio)

\* a merge that appends every category again
all_categories(existing, categories) == categories

\* new_categories = [cat for cat in categories if cat not in seen]
new_categories(existing, categories) ==
    SelectSeq(categories, LAMBDA cat : \A i \in 1..Len(existing) : existing[i] # cat)

\* parent.children = existing_children + new_categories, where there are
\* categories for the parent
with_categories(nodes, parent_id, categories) ==
    IF categories = <<>> THEN nodes
    ELSE [i \in 1..Len(nodes) |->
            IF nodes[i].id = parent_id
            THEN [nodes[i] EXCEPT !.children = @ \o new_categories(@, categories)]
            ELSE nodes[i]]

merged_tree(menu, merged) ==
    [menu EXCEPT !.nodes = with_categories(with_categories(merged.nodes, economico,
                                                           merged.economic),
                                           socio, merged.social)]

\* MenuGenerator.enhance_menu_tree
enhance_menu_tree(db_client, categorized_tables, menu) ==
    IF ~ db_client THEN menu
    ELSE merged_tree(menu,
                     merge_nodes([nodes |-> menu.nodes, economic |-> <<>>, social |-> <<>>],
                                 generate_menu_nodes(categorized_tables),
                                 get_node(menu, economico) # NoNode,
                                 get_node(menu, socio) # NoNode))

\* what the model answered to the classification prompt could not be used:
\* no content, or no JSON
Unparsed == _default_response("<unparsed>")

\* dict.get on the classifier's cache, a list of [key, result] in insertion order
Cached(cache, key) == {i \in 1..Len(cache) : cache[i].key = key}

\* a classifier that returns the result and caches nothing
answered_uncached(t, key, result) ==
    [t EXCEPT !.intent = result, !.llm = Append(@, "classify")]

\* the result is cached and returned
Answered(t, key, result) ==
    [t EXCEPT !.intent = result,
              !.s.cache = Append(@, [key |-> key, result |-> result]),
              !.llm = Append(@, "classify")]

\* classify past the cache: hit holds the positions of the key in the cache
looked_up(t, env, verdict, key, hit) ==
    IF hit # {} THEN [t EXCEPT !.intent = t.s.cache[SetMin(hit)].result]
    ELSE IF ~ env.openai THEN [t EXCEPT !.intent = _basic_classify(t.user_input)]
    ELSE Answered(t, key, IF verdict = Unparsed THEN _basic_classify(t.user_input)
                          ELSE verdict)

\* classify on the key of the message
keyed(t, env, verdict, key) == looked_up(t, env, verdict, key, Cached(t.s.cache, key))

\* classify_user_intent: LLMIntentClassifier.classify on the global
\* classifier; verdict is the result the model's answer parses to
classify(t, env, verdict) ==
    IF Strip(t.user_input) = <<>> THEN [t EXCEPT !.intent = _default_response("saludo")]
    ELSE keyed(t, env, verdict, cache_key(t.user_input))

\* the words of a question about what the assistant can do
capability_words ==
    <<<<"p","o","d","e","s">>, <<"p","u","e","d","e","s">>, <<"h","a","c","e","r">>, <<"h","a","c","e","s">>, <<"a","y","u","d","a","r">>, <<"s","e","r","v","i","r">>,
      <<"f","u","n","c","i","o","n","a">>, <<"s","a","b","e","s">>, <<"c","a","p","a","z">>, <<"c","a","p","a","c","i","d","a","d">>>>

\* api.py 672-756: the intents that are answered with a fixed text
canned_reply(t) ==
    IF t.intent.intencion = "saludo"
    THEN Say(t, IF AnyIn(capability_words, Lower(t.user_input)) THEN welcome_capabilities
                ELSE welcome_response)
    ELSE IF t.intent.intencion = "despedida" THEN Say(t, farewell_response)
    ELSE IF t.intent.intencion = "ayuda" THEN Say(t, help_response)
    ELSE IF t.intent.intencion = "fuera_de_dominio" THEN Say(t, out_of_domain_response)
    ELSE t

\* the memory was asked, and what it counted is kept
Asked(t, learned) == [Ran(t, "memory_lookup") EXCEPT !.s.memory = learned.memory]

\* the stored answer is said, where there is one
remembered(t, learned) ==
    IF learned.response # <<>> THEN Say(Asked(t, learned), learned.response)
    ELSE Asked(t, learned)

\* api.py 758-765: the learned-answer memory is asked for a stored answer
memory_lookup(t, env) ==
    IF env.learning /\ ~ isdigit(t.user_input) /\ is_domain_relevant(t.user_input)
    THEN remembered(t, get_response(t.s.memory, t.user_input))
    ELSE t

\* context_manager.CATEGORIES, in dict order
CATEGORIES ==
    <<[category |-> "precios",
       keywords |-> <<<<"i","p","c">>, <<"i","n","f","l","a","c","i","o","n">>, <<"i","n","f","l","a","c","i","o'","n">>, <<"p","r","e","c","i","o","s">>, <<"c","a","n","a","s","t","a">>>>],
      [category |-> "dolar",
       keywords |-> <<<<"d","o","l","a","r">>, <<"d","o'","l","a","r">>, <<"b","l","u","e">>, <<"m","e","p">>, <<"c","c","l">>, <<"o","f","i","c","i","a","l">>, <<"d","i","v","i","s","a">>,
                      <<"c","a","m","b","i","o">>>>],
      [category |-> "empleo",
       keywords |-> <<<<"e","m","p","l","e","o">>, <<"t","r","a","b","a","j","o">>, <<"d","e","s","e","m","p","l","e","o">>, <<"d","e","s","o","c","u","p","a","c","i","o","n">>, <<"d","e","s","o","c","u","p","a","c","i","o'","n">>,
                      <<"s","i","p","a">>, <<"e","p","h">>, <<"l","a","b","o","r","a","l">>>>],
      [category |-> "semaforo",
       keywords |-> <<<<"s","e","m","a","f","o","r","o">>, <<"s","e","m","a'","f","o","r","o">>, <<"i","n","d","i","c","a","d","o","r","e","s">>, <<"e","c","o","n","o","m","i","a">>, <<"e","c","o","n","o","m","i'","a">>>>],
      [category |-> "censo",
       keywords |-> <<<<"c","e","n","s","o">>, <<"p","o","b","l","a","c","i","o","n">>, <<"p","o","b","l","a","c","i","o'","n">>, <<"h","a","b","i","t","a","n","t","e","s">>, <<"d","e","m","o","g","r","a","f","i'","a">>,
                      <<"m","u","n","i","c","i","p","i","o">>, <<"d","e","p","a","r","t","a","m","e","n","t","o">>>>],
      [category |-> "general",
       keywords |-> <<<<"a","y","u","d","a">>, <<"m","e","n","u">>, <<"m","e","n","u'">>, <<"h","o","l","a">>, <<"i","n","i","c","i","o">>>>]>>

\* the number of keywords of a category that the text contains
category_score(keywords, text_lower) ==
    Cardinality({k \in 1..Len(keywords) : Contains(text_lower, keywords[k])})

\* the first category among best
first_category(best) == IF best = {} THEN NoTool ELSE CATEGORIES[SetMin(best)].category

\* max(scores, key=scores.get) over the categories that scored
highest_category(scores) ==
    first_category({i \in DOMAIN scores :
                        /\ scores[i] > 0
                        /\ \A j \in DOMAIN scores : scores[j] <= scores[i]})

\* detect_category on the lowered text
scored_category(text_lower) ==
    highest_category([i \in 1..Len(CATEGORIES) |->
                        category_score(CATEGORIES[i].keywords, text_lower)])

\* context_manager.detect_category: the first category of the highest score
detect_category(text) == scored_category(Lower(text))

\* context_manager.should_reset_context
should_reset_context(current_category, new_category, menu_navigation) ==
    \/ menu_navigation
    \/ (current_category # NoTool /\ new_category # NoTool /\ current_category # new_category)
    \/ new_category = "general"

\* the conversation is cleared where the category calls for it
moved_to(t, new_category, menu_navigation) ==
    IF should_reset_context(t.s.category, new_category, menu_navigation)
    THEN [ClearMessages(t) EXCEPT !.s.category = new_category]
    ELSE t

\* what the model keeps of new_category = detect_category(...): the category
\* detected for the turn, and the last one detected in the session
detected_as(t, new_category) ==
    IF new_category = NoTool THEN t
    ELSE [t EXCEPT !.detected = new_category, !.s.topic = new_category]

\* the clearing of the conversation that follows a topic change
reset_context(t, node, menu_navigation) ==
    detected_as(moved_to(t, detect_category(node.title \o <<" ">> \o node.description),
                         menu_navigation),
                detect_category(node.title \o <<" ">> \o node.description))

\* api.py 780-786 and 1033-1040: the tree of a session not yet marked as
\* enhanced is enhanced with the tables the generator finds, and marked
lazy_enhance(t, env, node_id) ==
    IF ~ t.s.menu_enhanced /\ env.db_client /\ node_id \in {economico, socio}
    THEN [t EXCEPT !.s.menu_enhanced = TRUE,
                   !.s.menu_tree = enhance_menu_tree(TRUE, env.tables, @)]
    ELSE t

\* api.py 793-838: the child selected is shown, run or told, or its query
\* replaces the message
run_child(t, env, child_node) ==
    IF child_node.action = "menu"
    THEN Say(Navigate(t, child_node.id), format_menu(t.s.menu_tree, child_node.id))
    ELSE IF child_node.action = "tool" /\ child_node.tool # "" /\ is_available(env.db)
    THEN RunTool(t, env, child_node, FALSE, NoSave)
    ELSE IF child_node.action = "info" /\ child_node.info_text # <<>>
    THEN Say(t, child_node.info_text)
    ELSE IF child_node.db_query # <<>>
    THEN [t EXCEPT !.user_input = child_node.db_query]
    ELSE t

\* api.py 779-792: the menu of the child is enhanced and the context reset
current_child(t, env, child_node) ==
    IF child_node = NoNode THEN t
    ELSE run_child(Ran(reset_context(lazy_enhance(t, env, child_node.id), child_node, TRUE),
                       "current_menu_number"),
                   env, child_node)

\* api.py 771-838 ("Paso 0"): a message that int() reads selects a child of
\* the current node
current_menu_number(t, env) ==
    IF IntRaises(t.user_input) THEN t
    ELSE current_child(t, env,
                       numbered_child(t.s.menu_tree, t.s.node,
                                      get_node(t.s.menu_tree, t.s.node), int(t.user_input)))

\* the steps after the memory, where it did not answer
after_memory(remembered_turn, env) ==
    IF remembered_turn.done THEN remembered_turn ELSE current_menu_number(remembered_turn, env)

\* the steps after the fixed replies, where none was given
after_canned(canned, env) ==
    IF canned.done THEN canned ELSE after_memory(memory_lookup(canned, env), env)

\* api.py 654-838: the intent is classified, fixed replies and the learned
\* memory answer, and a number selects from the current menu
intent_stage(t, env, verdict) == after_canned(canned_reply(classify(t, env, verdict)), env)

\* the calls of the router are recorded
Called(t, routed) ==
    [Ran([t EXCEPT !.skip_menu_search = TRUE], "query_router") EXCEPT
        !.tools = @ \o routed.calls]

\* api.py 856-868: what the router returned is held for the enricher
routed_answer(t, env, routed) ==
    IF routed.tool = NoTool THEN Called(t, routed)
    ELSE [Called(t, routed) EXCEPT
            !.response = routed.text, !.done = TRUE, !.said = FALSE,
            !.enrich = enricher_asks(routed.text, env.openai),
            !.save = NoSave, !.tool = routed.tool]

\* "if is_data_query and (has_entities or is_comparison or tema)"
goes_to_router(intent) ==
    /\ intent.intencion \in {"consulta_datos", "pregunta_conceptual"}
    /\ (Len(intent.entidades) > 0 \/ intent.es_comparacion \/ intent.tema # NoTool)

\* api.py 842-868: a data query with a topic, places or a comparison goes to
\* the QueryRouter
data_query(t, env, locations) ==
    IF ~ goes_to_router(t.intent) THEN t
    ELSE IF ~ is_available(env.db) THEN [t EXCEPT !.skip_menu_search = TRUE]
    ELSE routed_answer(t, env, route_and_execute(env.db, t.user_input, locations))

\* s[:n]
Prefix(s, n) == SubSeq(s, 1, IF Len(s) < n THEN Len(s) ELSE n)

\* a save that rates every answer above the stored ones
save_as_better(t, env, question, response, category, is_conceptual) ==
    IF ~ env.learning THEN t
    ELSE [Ran(t, "learn") EXCEPT
            !.s.memory = learn(@, question, response, category, is_conceptual, <<9, 10>>)]

\* api.py save_to_memory: only long answers to questions of the domain that
\* are neither menus nor errors are learned
save_to_memory(t, env, question, response, category, is_conceptual) ==
    IF ~ env.learning THEN t
    ELSE IF ~ is_domain_relevant(question) THEN t
    ELSE IF Len(response) < 100 THEN t
    ELSE IF StartsWith(response, <<"1",".">>) \/ Contains(Prefix(response, 200), <<"<corner>", "<dash>">>)
    THEN t
    ELSE IF \/ Contains(Prefix(Lower(response), 100), <<"e","r","r","o","r">>)
            \/ Contains(Prefix(Lower(response), 50), <<"l","o"," ","s","i","e","n","t","o">>)
    THEN t
    ELSE [Ran(t, "learn") EXCEPT
            !.s.memory = learn(@, question, response, category, is_conceptual, <<4, 5>>)]

\* the enricher's request to the model is recorded
AskedEnricher(t) == IF t.enrich THEN [t EXCEPT !.llm = Append(@, "enrich")] ELSE t

\* the text is said to the user, and saved where the call site saves it
Told(t, env, text) ==
    IF t.save.wanted
    THEN save_to_memory(Say(AskedEnricher(t), text), env, t.user_input, text, t.save.category,
                        t.save.is_conceptual)
    ELSE Say(AskedEnricher(t), text)

\* a turn that ran a tool or the router is completed: the enricher's request
\* to the model is answered with llm_text (<<>>: with nothing), the text is
\* said to the user, and it is saved where the call site saves it
Conclude(t, env, llm_text) ==
    IF t.said THEN t
    ELSE Told(t, env, IF t.enrich /\ llm_text # <<>> THEN llm_text ELSE t.response)

\* what the title of a node adds to the score of the second matcher
option_title_score(title, title_normalized, user_input_normalized, user_input_words) ==
    IF title = <<>> THEN 0
    ELSE IF user_input_normalized = title_normalized THEN 100
    ELSE IF \/ Contains(title_normalized, user_input_normalized)
            \/ Contains(user_input_normalized, title_normalized) THEN 50
    ELSE 10 * Cardinality(user_input_words \cap Words(title_normalized))

\* what one keyword of a node adds
option_keyword_score(keyword_normalized, user_input_normalized, user_input_words) ==
    IF \/ Contains(user_input_normalized, keyword_normalized)
       \/ Contains(keyword_normalized, user_input_normalized) THEN 20
    ELSE IF keyword_normalized \in user_input_words THEN 10
    ELSE 0

RECURSIVE option_keywords_score(_, _, _)
option_keywords_score(keywords, user_input_normalized, user_input_words) ==
    IF keywords = <<>> THEN 0
    ELSE option_keyword_score(Strip(Lower(Head(keywords))), user_input_normalized,
                              user_input_words)
            + option_keywords_score(Tail(keywords), user_input_normalized, user_input_words)

\* the score the second matcher of the endpoint gives a node
option_score(node, user_input_normalized, user_input_words) ==
    option_title_score(node.title, DropPunct(Lower(Strip(node.title))), user_input_normalized,
                       user_input_words)
        + option_keywords_score(node.keywords, user_input_normalized, user_input_words)

RECURSIVE best_option(_, _, _, _, _)

\* one round of the loop: the score of the first node against the best so far
compare_option(nodes, user_input_normalized, user_input_words, matched_node, best_match_score,
               score) ==
    IF score > best_match_score
    THEN best_option(Tail(nodes), user_input_normalized, user_input_words, Head(nodes), score)
    ELSE best_option(Tail(nodes), user_input_normalized, user_input_words, matched_node,
                     best_match_score)

\* one of the two loops of the second matcher: the first node of the highest
\* score above the score so far
best_option(nodes, user_input_normalized, user_input_words, matched_node, best_match_score) ==
    IF nodes = <<>> THEN [node |-> matched_node, score |-> best_match_score]
    ELSE compare_option(nodes, user_input_normalized, user_input_words, matched_node,
                        best_match_score,
                        option_score(Head(nodes), user_input_normalized, user_input_words))

\* the nodes that the ids of a children list name
existing_children(self, node) ==
    LET named(id) == get_node(self, id) # NoNode
        ids == SelectSeq(node.children, named)
    IN  [i \in 1..Len(ids) |-> get_node(self, ids[i])]

\* api.py 920-943: below a score of 30 the whole tree is searched
widened_option(self, user_input_normalized, user_input_words, among_children) ==
    IF among_children.node = NoNode \/ among_children.score < 30
    THEN best_option(self.nodes, user_input_normalized, user_input_words,
                     among_children.node, among_children.score)
    ELSE among_children

\* api.py 884-943: the children of the current node are searched first
searched_option(self, current_node_id, user_input_normalized, user_input_words) ==
    widened_option(self, user_input_normalized, user_input_words,
                   best_option(existing_children(self, get_node(self, current_node_id)),
                               user_input_normalized, user_input_words, NoNode, 0))

\* matched_option on the normalized message
normalized_option(self, current_node_id, user_input_normalized) ==
    searched_option(self, current_node_id, user_input_normalized,
                    Words(user_input_normalized))

\* api.py 874-943: the node the message names, first among the children of
\* the current node, then in the whole tree
matched_option(self, current_node_id, user_input) ==
    normalized_option(self, current_node_id, DropPunct(Lower(Strip(user_input))))

\* the tool of the matched node ran, and the enricher asked the model where
\* it asks
RanTool(t, env, matched_node, result) ==
    [t EXCEPT
        !.ran = @ \cup {"tool"},
        !.tools = Append(@, [tool |-> matched_node.tool, args |-> tool_args_of(matched_node)]),
        !.llm = IF enricher_asks(result, env.openai) THEN Append(@, "enrich") ELSE @,
        !.tool = matched_node.tool]

\* api.py 990-996: the enriched result is said and saved
told_result(t, env, matched_node, enriched) ==
    save_to_memory(Say(t, enriched), env, t.user_input, enriched, matched_node.id, FALSE)

\* api.py 983-996: the tool of the matched node is run
executed_option(t, env, matched_node, llm_text, result) ==
    told_result(RanTool(t, env, matched_node, result), env, matched_node,
                enrich(result, env.openai, llm_text))

\* api.py 983-1015: the matched node is run, told or shown, or its query
\* replaces the message
run_option(t, env, matched_node, llm_text) ==
    IF matched_node.action = "tool" /\ matched_node.tool # "" /\ is_available(env.db)
    THEN executed_option(t, env, matched_node, llm_text,
                         execute(env.db, matched_node.tool, tool_args_of(matched_node)))
    ELSE IF matched_node.action = "info" /\ matched_node.info_text # <<>>
    THEN Say(t, matched_node.info_text)
    ELSE IF matched_node.action = "menu"
    THEN Say(Navigate(t, matched_node.id), format_menu(t.s.menu_tree, matched_node.id))
    ELSE IF matched_node.db_query # <<>>
    THEN [t EXCEPT !.user_input = matched_node.db_query]
    ELSE t

\* api.py 949-981: a conceptual question is answered by the model, where it
\* answers; asked is the turn after the question was put to it
answered_option(asked, env, matched_node, conceptual, llm_text) ==
    IF conceptual /\ llm_text # <<>>
    THEN save_to_memory(Say(asked, llm_text), env, asked.user_input, llm_text,
                        matched_node.id, TRUE)
    ELSE run_option(reset_context(asked, matched_node, FALSE), env, matched_node, llm_text)

\* api.py 945-981: whether the message is a conceptual question
judged_option(t, env, matched_node, conceptual, llm_text) ==
    answered_option(IF conceptual THEN [t EXCEPT !.llm = Append(@, "conceptual")] ELSE t,
                    env, matched_node, conceptual, llm_text)

\* api.py 945: only a match of 20 or more counts
found_option(t, env, found, llm_text) ==
    IF found.node = NoNode \/ found.score < 20 THEN t
    ELSE judged_option(t, env, found.node, is_conceptual_question(t.user_input), llm_text)

\* api.py 872-1015: a message that names a menu option runs that option; a
\* conceptual question about it goes to the model instead
menu_option_match(t, env, llm_text) ==
    IF t.skip_menu_search \/ t.user_input = <<>> \/ isdigit(t.user_input) THEN t
    ELSE found_option(Ran(t, "menu_option_match"), env,
                      matched_option(t.s.menu_tree, t.s.node, t.user_input), llm_text)

\* KeywordDetector.common_keywords, the three navigation commands
common_keywords_menu == <<<<"m","e","n","u'">>, <<"m","e","n","u">>, <<"i","n","i","c","i","o">>, <<"p","r","i","n","c","i","p","a","l">>, <<"v","o","l","v","e","r">>>>
common_keywords_back == <<<<"a","t","r","a'","s">>, <<"b","a","c","k">>, <<"v","o","l","v","e","r">>, <<"a","n","t","e","r","i","o","r">>, <<"r","e","g","r","e","s","a","r">>>>
common_keywords_help == <<<<"a","y","u","d","a">>, <<"h","e","l","p">>, <<"c","o","m","o"," ","u","s","a","r">>, <<"i","n","s","t","r","u","c","c","i","o","n","e","s">>, <<"i","n","f","o","r","m","a","c","i","o'","n">>>>
common_keywords_estructura ==
    <<<<"e","s","t","r","u","c","t","u","r","a">>, <<"t","a","b","l","a","s">>, <<"c","o","l","u","m","n","a","s">>, <<"s","c","h","e","m","a">>, <<"e","s","q","u","e","m","a">>, <<"b","a","s","e"," ","d","e"," ","d","a","t","o","s">>,
      <<"q","u","e'"," ","h","a","y">>, <<"q","u","e"," ","h","a","y">>, <<"q","u","e'"," ","i","n","f","o","r","m","a","c","i","o'","n">>, <<"q","u","e"," ","i","n","f","o","r","m","a","c","i","o'","n">>>>

\* menu_term_mapping of detect_intent, in dict order
menu_term_mapping ==
    <<[term |-> <<"d","a","t","o","s"," ","e","c","o","n","o'","m","i","c","o","s">>, node_id |-> economico],
      [term |-> <<"d","a","t","o","s"," ","e","c","o","n","o","m","i","c","o","s">>, node_id |-> economico],
      [term |-> <<"d","a","t","o","s"," ","s","o","c","i","a","l","e","s">>, node_id |-> socio],
      [term |-> <<"d","a","t","a","l","a","k","e"," ","e","c","o","n","o'","m","i","c","o">>, node_id |-> economico],
      [term |-> <<"d","a","t","a","l","a","k","e"," ","e","c","o","n","o","m","i","c","o">>, node_id |-> economico],
      [term |-> <<"d","a","t","a","l","a","k","e"," ","s","o","c","i","a","l">>, node_id |-> socio],
      [term |-> <<"d","a","t","a","l","a","k","e"," ","s","o","c","i","o">>, node_id |-> socio],
      [term |-> <<"d","w","h"," ","e","c","o","n","o'","m","i","c","o">>, node_id |-> economico],
      [term |-> <<"d","w","h"," ","e","c","o","n","o","m","i","c","o">>, node_id |-> economico],
      [term |-> <<"d","w","h"," ","s","o","c","i","a","l">>, node_id |-> socio],
      [term |-> <<"d","w","h"," ","s","o","c","i","o">>, node_id |-> socio],
      [term |-> <<"i","n","f","o","r","m","a","c","i","o'","n"," ","g","e","n","e","r","a","l">>, node_id |-> general],
      [term |-> <<"i","n","f","o","r","m","a","c","i","o","n"," ","g","e","n","e","r","a","l">>, node_id |-> general]>>

\* the id of the first node among parents
first_parent(self, parents) ==
    IF parents = {} THEN NoneId ELSE self.nodes[SetMin(parents)].id

\* the first node of the tree that is a menu and lists node_id as a child
parent_menu(self, node_id) ==
    first_parent(self, {i \in 1..Len(self.nodes) :
                            /\ \E k \in 1..Len(self.nodes[i].children) :
                                    self.nodes[i].children[k] = node_id
                            /\ self.nodes[i].action = "menu"})

\* an intent of detect_intent; confidence in tenths.  The query type and the
\* keywords found only shape the text a database search is made with
Intent(type, node_id, db_query, confidence) ==
    [type |-> type, node_id |-> node_id, db_query |-> db_query, confidence |-> confidence]

\* a node that is a menu, or else the menu that lists it
parent_or_self(self, menu_node) ==
    IF menu_node = NoNode THEN NoneId
    ELSE IF menu_node.action = "menu" THEN menu_node.id
    ELSE parent_menu(self, menu_node.id)

\* the node of the first menu term in the text, or else of the node that
\* find_node_by_keyword finds
node_of_terms(self, text, mapped) ==
    IF mapped # {} THEN menu_term_mapping[SetMin(mapped)].node_id
    ELSE parent_or_self(self, find_node_by_keyword(self, text))

\* the intent where a menu was matched, the structure was asked for, or
\* neither
menu_intent(self, text, text_lower, matched_node_id) ==
    IF matched_node_id # NoneId /\ get_node(self, matched_node_id).action = "menu"
    THEN Intent("menu", matched_node_id, <<>>, 9)
    ELSE IF AnyIn(common_keywords_estructura, text_lower)
    THEN Intent("query", <<"e","s","t","r","u","c","t","u","r","a">>, <<"s","t","r","u","c","t","u","r","e">>, 9)
    ELSE Intent("open", NoneId, text, 6)

\* the navigation commands come before the menu terms
command_intent(self, text, text_lower) ==
    IF AnyIn(common_keywords_menu, text_lower) THEN Intent("menu", root, <<>>, 10)
    ELSE IF AnyIn(common_keywords_back, text_lower) THEN Intent("back", NoneId, <<>>, 10)
    ELSE IF AnyIn(common_keywords_help, text_lower) THEN Intent("menu", ayuda, <<>>, 10)
    ELSE menu_intent(self, text, text_lower,
                     node_of_terms(self, text,
                                   {i \in 1..Len(menu_term_mapping) :
                                        Contains(text_lower, menu_term_mapping[i].term)}))

\* the intent of a number that selects a child of the root
numbered_intent(child_node) ==
    Intent(IF child_node.action = "menu" THEN "menu" ELSE "query", child_node.id,
           child_node.db_query, 10)

\* a number that selects no node is read as text
number_intent(self, text, text_lower, child_id) ==
    IF child_id # NoneId /\ get_node(self, child_id) # NoNode
    THEN numbered_intent(get_node(self, child_id))
    ELSE command_intent(self, text, text_lower)

\* detect_intent on the lowered and stripped text
detected_intent(self, text, text_lower) ==
    IF IntRaises(text_lower) THEN command_intent(self, text, text_lower)
    ELSE number_intent(self, text, text_lower, root_child(self, int(text_lower)))

\* KeywordDetector.detect_intent, of a detector without database keywords
detect_intent(self, text) == detected_intent(self, text, Strip(Lower(text)))

\* the words a related-options search ignores
common_words ==
    {<<"e","l">>, <<"l","a">>, <<"l","o","s">>, <<"l","a","s">>, <<"d","e">>, <<"d","e","l">>, <<"e","n">>, <<"u","n">>, <<"u","n","a">>, <<"y">>, <<"o">>, <<"q","u","e">>,
     <<"p","a","r","a">>, <<"p","o","r">>, <<"c","o","n">>, <<"s","i","n">>, <<"s","o","b","r","e">>, <<"a","c","c","e","s","o">>, <<"a">>}

\* what the title of a node adds to the score of RelatedOptionsFinder
related_title_score(title, title_normalized, query_normalized, query_words) ==
    IF title = <<>> THEN 0
    ELSE IF query_normalized = title_normalized THEN 100
    ELSE IF \/ Contains(title_normalized, query_normalized)
            \/ Contains(query_normalized, title_normalized) THEN 50
    ELSE 15 * Cardinality(query_words \cap Words(title_normalized))

\* what one keyword of a node adds
related_keyword_score(keyword_normalized, query_normalized, query_words) ==
    IF \/ Contains(query_normalized, keyword_normalized)
       \/ Contains(keyword_normalized, query_normalized) THEN 30
    ELSE IF keyword_normalized \in query_words THEN 15
    ELSE 0

RECURSIVE related_keywords_score(_, _, _)
related_keywords_score(keywords, query_normalized, query_words) ==
    IF keywords = <<>> THEN 0
    ELSE related_keyword_score(Strip(Lower(Head(keywords))), query_normalized, query_words)
            + related_keywords_score(Tail(keywords), query_normalized, query_words)

\* the score RelatedOptionsFinder gives a node
related_score(node, query_normalized, query_words) ==
    related_title_score(node.title, DropPunct(Lower(Strip(node.title))), query_normalized,
                        query_words)
        + related_keywords_score(node.keywords, query_normalized, query_words)
        + 5 * Cardinality(query_words \cap Words(DropPunct(Lower(Strip(node.description)))))

\* the first position of the highest score among picked
FirstHighest(scores, picked) ==
    CHOOSE i \in picked :
        \A j \in picked : scores[i] > scores[j] \/ (scores[i] = scores[j] /\ i <= j)

RECURSIVE by_score(_, _)

\* the position goes first, the others follow in their order
then_by_score(scores, picked, first) == <<first>> \o by_score(scores, picked \ {first})

\* sort(key=score, reverse=True), a stable sort: the positions picked, the
\* highest score first and the earlier node first among equals
by_score(scores, picked) ==
    IF picked = {} THEN <<>> ELSE then_by_score(scores, picked, FirstHighest(scores, picked))

\* the nodes at the first max_options positions of the order
first_options(self, order, max_options) ==
    [i \in 1..(IF Len(order) < max_options THEN Len(order) ELSE max_options) |->
        self.nodes[order[i]]]

\* only a score of 15 or more counts
sorted_options(self, scores, max_options) ==
    first_options(self, by_score(scores, {i \in 1..Len(self.nodes) : scores[i] >= 15}),
                  max_options)

\* find_related_options on the words of the query
scored_options(self, query, max_options, query_normalized, query_words) ==
    IF Strip(query) = <<>> \/ query_words = {} THEN <<>>
    ELSE sorted_options(self, [i \in 1..Len(self.nodes) |->
                                related_score(self.nodes[i], query_normalized, query_words)],
                        max_options)

\* find_related_options on the normalized query
normalized_options(self, query, max_options, query_normalized) ==
    scored_options(self, query, max_options, query_normalized,
                   {w \in Words(query_normalized) : w \notin common_words /\ Len(w) > 2})

\* RelatedOptionsFinder.find_related_options: the nodes, best first
find_related_options(self, query, max_options) ==
    normalized_options(self, query, max_options, DropPunct(Lower(Strip(query))))

RECURSIVE related_lines(_, _)
related_lines(related_nodes, i) ==
    IF i > Len(related_nodes) THEN <<>>
    ELSE Str(i) \o <<"."," ">> \o related_nodes[i].title \o <<"<nl>">>
            \o (IF related_nodes[i].description # <<>>
                THEN DescPrefix \o related_nodes[i].description \o <<"<nl>">>
                ELSE <<>>)
            \o related_lines(related_nodes, i + 1)

\* RelatedOptionsFinder.format_related_options_menu
format_related_options_menu(query, related_nodes) ==
    IF related_nodes = <<>> THEN <<>>
    ELSE <<"N","o"," ","e","n","c","o","n","t","r","e'"," ","i","n","f","o","r","m","a","c",
          "i","o'","n"," ","e","s","p","e","c","i'","f","i","c","a"," ","s","o","b","r","e",
          " ","'">> \o query
            \o <<"'",","," ","p","e","r","o"," ","p","u","e","d","o"," ","a","y","u","d","a","r",
                  "t","e"," ","c","o","n"," ","e","s","t","a","s"," ","o","p","c","i","o","n","e",
                  "s"," ","r","e","l","a","c","i","o","n","a","d","a","s",":","<nl>","<nl>">>
            \o related_lines(related_nodes, 1)
            \o <<"<nl>","<bulb>"," ","T","a","m","b","i","e'","n"," ","p","u","e","d","e","s"," ","e","s",
                  "c","r","i","b","i","r"," ","t","u"," ","c","o","n","s","u","l","t","a"," ","d",
                  "e"," ","o","t","r","a"," ","m","a","n","e","r","a"," ","o"," ","n","a","v","e",
                  "g","a","r"," ","p","o","r"," ","e","l"," ","m","e","n","u'"," ","p","r","i","n",
                  "c","i","p","a","l",".">>

\* the node a menu intent leads to: the node itself, or the menu above it
navigation_target(intent, target_node, parent) ==
    IF target_node = NoNode THEN root
    ELSE IF target_node.action # "menu" /\ parent # NoneId THEN parent
    ELSE intent.node_id

\* the menu of the node is shown
shown_menu(t, node_id) == Say(Navigate(t, node_id), format_menu(t.s.menu_tree, node_id))

\* api.py 1029-1067: an explicit menu intent navigates to the node, or to the
\* menu that lists it
menu_navigation(t, env, intent) ==
    shown_menu(Ran(lazy_enhance(t, env, intent.node_id), "menu_navigation"),
               navigation_target(intent, get_node(t.s.menu_tree, intent.node_id),
                                 parent_menu(t.s.menu_tree, intent.node_id)))

\* the menu of the node visited before is shown
shown_previous(t, popped, prev_node_id) ==
    Say([t EXCEPT !.s.history = popped, !.s.node = prev_node_id],
        format_menu(t.s.menu_tree, prev_node_id))

\* menu_history.pop(), and the node that is then last
previous_node(t, popped) ==
    shown_previous(t, popped, IF popped = <<>> THEN root ELSE popped[Len(popped)])

\* api.py 1069-1082: "back" returns to the node visited before
go_back(t) ==
    previous_node(t, IF t.s.history = <<>> THEN <<>>
                     ELSE SubSeq(t.s.history, 1, Len(t.s.history) - 1))

\* api.py 1180-1252: the related options are offered, or the model is asked
suggested_options(t, llm_text, related_options) ==
    IF related_options # <<>>
    THEN Say(Ran(t, "related_options"),
             format_related_options_menu(t.user_input, related_options))
    ELSE IF llm_text = <<>> THEN Say([t EXCEPT !.llm = Append(@, "answer")], error_msg)
    ELSE Say([t EXCEPT !.llm = Append(@, "answer")], llm_text)

\* api.py 1029-1252: the intent decides what is shown
answered_intent(t, env, llm_text, intent) ==
    IF ~ t.skip_menu_search /\ intent.type = "menu" /\ intent.confidence >= 8
    THEN menu_navigation(t, env, intent)
    ELSE IF intent.type = "back" THEN go_back(t)
    ELSE IF intent.db_query = <<"s","t","r","u","c","t","u","r","e">> /\ env.db_client THEN Say(t, <<>>)
    ELSE suggested_options(t, llm_text, find_related_options(t.s.menu_tree, t.user_input, 5))

\* api.py 1018-1252: what no earlier step answered goes to the keyword
\* detector, to the related options of the menu and last to the model.  The
\* database of the chat session holds no tables: its structure is empty and
\* a search in it finds nothing
open_query(t, env, llm_text) ==
    IF t.skip_menu_search
    THEN answered_intent(t, env, llm_text, Intent("open", NoneId, <<>>, 10))
    ELSE answered_intent(Ran(t, "detect_intent"), env, llm_text,
                         detect_intent(t.s.menu_tree, t.user_input))

\* the steps after the second matcher, where it did not answer
after_match(matched, env, llm_text) ==
    IF matched.done THEN matched ELSE open_query(matched, env, llm_text)

\* api.py 870-1252: the steps after the router
open_stage(t, env, llm_text) == after_match(menu_option_match(t, env, llm_text), env, llm_text)

-----------------------------------------------------------------------------
(* The LLM clients (llm_clients.py) and the LLM step of the endpoint         *)
(* (api.py 1173-1187).  What a service does with one request is an outcome:  *)
(* it answers with a content ("ok"), with an HTTP error status ("status"),   *)
(* with a body that holds no choices ("malformed"), the connection fails     *)
(* ("connection"), or it never answers ("silent").  What a call gives its    *)
(* caller is a value, None, or an exception.                                 *)

Outcome(kind, status, content) == [kind |-> kind, status |-> status, content |-> content]

Value(text) == [kind |-> "value", text |-> text]
NoneValue == [kind |-> "none", text |-> <<>>]
Raised(text) == [kind |-> "raised", text |-> text]

\* "if not llm_response"
Falsy(result) == result.kind = "none" \/ (result.kind = "value" /\ result.text = <<>>)

\* requests.post(..., timeout=30) in LLMClient, requests.post(...) without a
\* timeout in OpenAIClient
has_timeout(client) == client = "groq"

\* the request comes back to the client: the service did something, or the
\* timeout of the client ends the wait
Completes(client, outcome) == outcome.kind # "silent" \/ has_timeout(client)

\* str(e) of the exception requests raises for the outcome
exception_text(outcome) ==
    IF outcome.kind = "status"
    THEN Str(outcome.status) \o <<" ","E","r","r","o","r"," ","f","o","r"," ","u","r","l",":"," ","h","t","t","p",
          "s",":","/","/","a","p","i",".","o","p","e","n","a","i",".","c","o","m","/","v",
          "1","/","c","h","a","t","/","c","o","m","p","l","e","t","i","o","n","s">>
    ELSE <<"H","T","T","P","S","C","o","n","n","e","c","t","i","o","n","P","o","o","l","(",
          "h","o","s","t","=","'","a","p","i",".","o","p","e","n","a","i",".","c","o","m",
          "'",","," ","p","o","r","t","=","4","4","3",")",":"," ","M","a","x"," ","r","e",
          "t","r","i","e","s"," ","e","x","c","e","e","d","e","d">>

\* the text OpenAIClient.get_response returns for a failed request
openai_error_reply(outcome) ==
    <<"I"," ","e","n","c","o","u","n","t","e","r","e","d"," ","a","n"," ","e","r","r",
          "o","r",":"," ","E","r","r","o","r"," ","g","e","t","t","i","n","g"," ","O","p",
          "e","n","A","I"," ","r","e","s","p","o","n","s","e",":"," ">> \o exception_text(outcome)
        \o <<"."," ","P","l","e","a","s","e"," ","t","r","y"," ","a","g","a","i","n"," ","o",
              "r"," ","r","e","p","h","r","a","s","e"," ","y","o","u","r"," ","r","e","q","u",
              "e","s","t",".">>

\* str(e) of the KeyError of data['choices']
KeyErrorText == <<"'","c","h","o","i","c","e","s","'">>

\* OpenAIClient.get_response, once the request came back
openai_get_response(outcome) ==
    IF outcome.kind = "ok" THEN Value(outcome.content)
    ELSE IF outcome.kind = "malformed" THEN Raised(KeyErrorText)
    ELSE Value(openai_error_reply(outcome))

\* "if fallback_client and (status_code >= 500 or status_code in [401, 403, 429])"
switches_to_fallback(outcome, fallback_client) ==
    /\ outcome.kind = "status"
    /\ fallback_client
    /\ (outcome.status >= 500 \/ outcome.status \in {401, 403, 429})

\* LLMClient.get_response, once the request to Groq came back and where it
\* does not switch to the fallback
groq_get_response(outcome) ==
    IF outcome.kind = "ok" THEN Value(outcome.content)
    ELSE IF outcome.kind = "malformed" THEN Raised(KeyErrorText)
    ELSE NoneValue

\* LLMClient.get_response past the fallback: "except Exception: return None"
fallback_get_response(outcome) ==
    IF openai_get_response(outcome).kind = "raised" THEN NoneValue
    ELSE openai_get_response(outcome)

\* api.py 1183-1187 and 1241-1245, 1257-1263: what the turn answers with the
\* result of the LLM step
llm_step_response(result) ==
    IF result.kind = "raised" THEN ErrorPrefix \o result.text
    ELSE IF Falsy(result) THEN error_msg
    ELSE result.text

-----------------------------------------------------------------------------
(* The menu tree on its own: trees of the kinds the loader, the menu         *)
(* generator and the test fixtures build (tree.nodes is assigned directly,   *)
(* with children that name no node), and the two read operations on them.    *)

\* the longest children list drawn for the root
MaxChildren == 3

\* an id that names no node of any tree drawn
gone == <<"g","o","n","e">>

SeqsUpTo(S, n) == UNION {[1..k -> S] : k \in 0..n}

TitleT == <<"P","r","e","c","i","o","s">>
PlainDesc == <<"I","P","C"," ","y"," ","m","a'","s">>
TechDesc == <<"T","a","b","l","a"," ","i","p","c">>

\* the shapes drawn for the node "economico"
EconVariants ==
    {MenuNode(economico, TitleT, PlainDesc, "menu", <<>>, <<>>, <<>>, "", <<>>),
     MenuNode(economico, TitleT, <<>>, "info", <<>>, <<>>, <<>>, "", <<>>),
     MenuNode(economico, TitleT, PlainDesc, "query", <<>>, <<>>, <<>>, "", <<>>),
     MenuNode(economico, <<" ">>, TechDesc, "tool", <<>>, <<>>, <<>>, "get_ipc", <<>>),
     [MenuNode(economico, TitleT, <<>>, "menu", <<>>, <<>>, <<>>, "", <<>>)
        EXCEPT !.bad_desc = TRUE],
     MenuNode(economico, TitleT, PlainDesc, "menu", <<ayuda>>, <<>>, <<>>, "", <<>>),
     MenuNode(economico, TitleT, PlainDesc, "menu", <<gone, gone>>, <<>>, <<>>, "", <<>>)}

AyudaNode == MenuNode(ayuda, <<"A","y","u","d","a">>, <<>>, "info", <<>>, <<>>, <<>>, "", <<>>)

RootNode(children) ==
    MenuNode(root, <<"M","e","n","u'">>, <<>>, "menu", children, <<>>, <<>>, "", <<>>)

\* the node maps drawn, in insertion order: the whole tree, a tree without
\* its root, a tree of the root alone, a single leaf, the empty tree
TreeNodes(children, econ) ==
    {<<RootNode(children), econ, AyudaNode>>, <<econ, AyudaNode>>,
     <<RootNode(children)>>, <<AyudaNode>>, <<>>}

MenuTrees ==
    {[nodes |-> ns, root_node_id |-> r] :
        ns \in UNION {TreeNodes(ch, e) :
                        ch \in SeqsUpTo({economico, ayuda, gone}, MaxChildren),
                        e \in EconVariants},
        r \in {root, NoneId}}

NoDb == [available |-> FALSE, down |-> FALSE, places |-> {}]

NoRouteCall ==
    [op |-> "none", query |-> <<>>, db |-> NoDb, locations |-> <<>>, tool |-> NoTool,
     text |-> <<>>, calls |-> <<>>]

NoSimCall == [op |-> "none", text1 |-> <<>>, text2 |-> <<>>, score |-> <<0, 1>>]

NoCall == [op |-> "none", node_id |-> NoneId, number |-> 0, text |-> <<>>, node |-> NoNode]

\* no chat process is running
NoChat == [op |-> "none"]

InitMenu ==
    /\ menu_tree \in MenuTrees
    /\ menu_call = NoCall
    /\ sim_call = NoSimCall
    /\ route_call = NoRouteCall
    /\ chat = NoChat
    /\ sessions = Idle
    /\ norm_call = Idle
    /\ learn_call = Idle
    /\ classifier = Idle
    /\ llm_call = Idle
    /\ load_call = Idle
    /\ http_call = Idle

\* a caller formats the menu at node_id (None: the root)
FormatMenu(node_id) ==
    /\ menu_call' = [op |-> "format_menu", node_id |-> node_id, number |-> 0,
                     text |-> format_menu(menu_tree, node_id), node |-> NoNode]
    /\ UNCHANGED <<menu_tree, sim_vars, router_vars, chat_vars, unit_vars>>

\* a caller resolves option `number` of node_id
GetChildByNumber(node_id, number) ==
    /\ menu_call' = [op |-> "get_child_by_number", node_id |-> node_id, number |-> number,
                     text |-> <<>>,
                     node |-> get_child_by_number(menu_tree, node_id, number)]
    /\ UNCHANGED <<menu_tree, sim_vars, router_vars, chat_vars, unit_vars>>

NextMenu ==
    \/ \E node_id \in {NoneId, root, economico, ayuda, gone} : FormatMenu(node_id)
    \/ \E node_id \in {root, economico, ayuda, gone}, number \in (-1)..(MaxChildren + 1) :
            GetChildByNumber(node_id, number)

SpecMenu == InitMenu /\ [][NextMenu]_vars

-----------------------------------------------------------------------------
(* The similarity score on its own: pairs of short questions.                *)

\* the most words a question drawn for the similarity check has
MaxWords == 2

\* words the questions are made of: key terms as users type them (capitals,
\* accents, punctuation), a stop word, a content word
SimWords ==
    {<<"I","P","C","?">>, <<"e","p","h">>, <<"D","o'","l","a","r">>, <<"q","u","e">>,
     <<"v","a","l","o","r">>}

RECURSIVE Sentences(_)
Sentences(n) ==
    IF n = 0 THEN {<<>>}
    ELSE Sentences(n - 1)
            \cup {s \o (IF s = <<>> THEN <<>> ELSE <<" ">>) \o w :
                    s \in Sentences(n - 1), w \in SimWords}

SimTexts == Sentences(MaxWords)

\* the two questions a caller is about to compare
InitSim ==
    /\ sim_call \in {[op |-> "pending", text1 |-> t1, text2 |-> t2, score |-> <<0, 1>>] :
                        t1 \in SimTexts, t2 \in SimTexts}
    /\ menu_tree = [nodes |-> <<>>, root_node_id |-> NoneId]
    /\ menu_call = NoCall
    /\ route_call = NoRouteCall
    /\ chat = NoChat
    /\ sessions = Idle
    /\ norm_call = Idle
    /\ learn_call = Idle
    /\ classifier = Idle
    /\ llm_call = Idle
    /\ load_call = Idle
    /\ http_call = Idle

CalculateSimilarity ==
    /\ sim_call.op = "pending"
    /\ sim_call' = [sim_call EXCEPT !.op = "_calculate_similarity",
                        !.score = _calculate_similarity(sim_call.text1, sim_call.text2)]
    /\ UNCHANGED <<menu_vars, router_vars, chat_vars, unit_vars>>

NextSim == CalculateSimilarity

SpecSim == InitSim /\ [][NextSim]_vars

\* the key terms of a text: its normalized tokens that are in KEY_TERMS
KeyTermsOf(text) == Words(_normalize_text(text)) \cap KEY_TERMS

\* C6: for all pairs of texts whose sets of key terms are both non-empty and
\* not equal, the similarity score is exactly 0.0.
C6_DifferentKeyTermsScoreZero ==
    (/\ sim_call.op = "_calculate_similarity"
     /\ KeyTermsOf(sim_call.text1) # {}
     /\ KeyTermsOf(sim_call.text2) # {}
     /\ KeyTermsOf(sim_call.text1) # KeyTermsOf(sim_call.text2))
    => FracIsZero(sim_call.score)

\* two questions that share a word but name different indicators were scored
C6_Witness ==
    /\ sim_call.op = "_calculate_similarity"
    /\ KeyTermsOf(sim_call.text1) = {<<"i","p","c">>}
    /\ KeyTermsOf(sim_call.text2) = {<<"d","o","l","a","r">>}
    /\ Words(_normalize_text(sim_call.text1)) \cap Words(_normalize_text(sim_call.text2)) # {}
    /\ FracIsZero(sim_call.score)

-----------------------------------------------------------------------------
(* detect_tool on its own: short queries.                                    *)

\* the most words a query drawn for detect_tool has
MaxQueryWords == 3

\* words the queries are made of: keywords of several tools as users type
\* them, a word that only contains a keyword ("gasolina"), a keyword that is
\* also the head of another tool's keyword ("actividad"), other words
DetectWords ==
    {<<"I","P","C">>, <<"D","o'","l","a","r">>, <<"b","l","u","e">>,
     <<"g","a","s","o","l","i","n","a">>, <<"a","c","t","i","v","i","d","a","d">>,
     <<"e","c","o","n","o","m","i","c","a">>, <<"h","o","l","a">>, <<"h","o","y","?">>}

RECURSIVE Queries(_)
Queries(n) ==
    IF n = 0 THEN {<<>>}
    ELSE Queries(n - 1)
            \cup {s \o (IF s = <<>> THEN <<>> ELSE <<" ">>) \o w :
                    s \in Queries(n - 1), w \in DetectWords}

InitDetect ==
    /\ route_call \in {[NoRouteCall EXCEPT !.op = "pending", !.query = q] :
                            q \in Queries(MaxQueryWords)}
    /\ menu_tree = [nodes |-> <<>>, root_node_id |-> NoneId]
    /\ menu_call = NoCall
    /\ sim_call = NoSimCall
    /\ chat = NoChat
    /\ sessions = Idle
    /\ norm_call = Idle
    /\ learn_call = Idle
    /\ classifier = Idle
    /\ llm_call = Idle
    /\ load_call = Idle
    /\ http_call = Idle

DetectTool ==
    /\ route_call.op = "pending"
    /\ route_call' = [route_call EXCEPT !.op = "detect_tool",
                                        !.tool = detect_tool(route_call.query)]
    /\ UNCHANGED <<menu_vars, sim_vars, chat_vars, unit_vars>>

NextDetect == DetectTool

SpecDetect == InitDetect /\ [][NextDetect]_vars

\* the tools with a keyword that the lower-cased query contains
ToolsContained(query) ==
    LET s == Lower(query)
    IN  {i \in 1..Len(TOOL_MAPPINGS) :
            \E k \in 1..Len(TOOL_MAPPINGS[i].keywords) :
                Contains(s, TOOL_MAPPINGS[i].keywords[k])}

\* the tools with a keyword that the lower-cased query holds as a whole word
ToolsWholeWord(query) ==
    LET s == Lower(query)
    IN  {i \in 1..Len(TOOL_MAPPINGS) :
            \E k \in 1..Len(TOOL_MAPPINGS[i].keywords) :
                WholeWord(s, TOOL_MAPPINGS[i].keywords[k])}

-----------------------------------------------------------------------------
(* route_and_execute: queries of an optional "compara", a topic and places,  *)
(* on databases that hold rows for some places, or whose queries raise.      *)

goya == <<"g","o","y","a">>
salta == <<"s","a","l","t","a">>
caba == <<"c","a","b","a">>
capital == <<"c","a","p","i","t","a","l">>
corrientes == <<"c","o","r","r","i","e","n","t","e","s">>

QueryPrefixes == {<<>>, <<"c","o","m","p","a","r","a"," ">>}

QueryTopics ==
    {<<"p","o","b","l","a","c","i","o","n">>,
     <<"s","u","p","e","r","m","e","r","c","a","d","o","s">>,
     <<"D","o'","l","a","r"," ","b","l","u","e">>,
     <<"c","l","i","m","a">>}

QueryPlaces ==
    {<<>>,
     <<" ","d","e"," ","g","o","y","a">>,
     <<" ","d","e"," ","G","o","y","a"," ","y"," ","S","a","l","t","a">>,
     <<" ","d","e"," ","g","o","y","a"," ","y"," ","c","a","p","i","t","a","l"," ","f","e","d",
       "e","r","a","l">>,
     <<" ","d","e"," ","c","t","e","s"," ","y"," ","c","o","r","r","i","e","n","t","e","s">>}

RouterQueries == {a \o b \o c : a \in QueryPrefixes, b \in QueryTopics, c \in QueryPlaces}

Databases ==
    {NoDb}
        \cup {[available |-> TRUE, down |-> d, places |-> ps] :
                d \in BOOLEAN,
                ps \in {{}, {goya}, {goya, salta}, {goya, salta, caba, capital, corrientes}}}

InitRouter ==
    /\ route_call \in {[NoRouteCall EXCEPT !.op = "pending", !.query = q, !.db = db] :
                            q \in RouterQueries, db \in Databases}
    /\ menu_tree = [nodes |-> <<>>, root_node_id |-> NoneId]
    /\ menu_call = NoCall
    /\ sim_call = NoSimCall
    /\ chat = NoChat
    /\ sessions = Idle
    /\ norm_call = Idle
    /\ learn_call = Idle
    /\ classifier = Idle
    /\ llm_call = Idle
    /\ load_call = Idle
    /\ http_call = Idle

\* one call of route_and_execute; the order of the locations is the one the
\* set LOCATION_NAMES happens to iterate in
RouteAndExecute ==
    /\ route_call.op = "pending"
    /\ \E locations \in Orderings(found_locations(route_call.query)) :
        LET r == route_and_execute(route_call.db, route_call.query, locations)
        IN  route_call' = [route_call EXCEPT !.op = "route_and_execute",
                                !.locations = locations, !.tool = r.tool,
                                !.text = r.text, !.calls = r.calls]
    /\ UNCHANGED <<menu_vars, sim_vars, chat_vars, unit_vars>>

NextRouter == RouteAndExecute

SpecRouter == InitRouter /\ [][NextRouter]_vars

\* the places a reader finds in a query: the names of LOCATION_NAMES written
\* as whole words, a name inside a longer name ("capital" in "capital
\* federal") not counted apart, variants under their canonical name
PlaceSpans(s) ==
    {<<i, l>> \in (1..Len(s)) \X LOCATION_NAMES :
        OccursAt(s, i, l) /\ Boundary(s, i - 1) /\ Boundary(s, i + Len(l) - 1)}

MentionedPlaces(query) ==
    LET s == Lower(query)
        spans == PlaceSpans(s)
        inside(x, y) == /\ x # y
                        /\ y[1] <= x[1]
                        /\ x[1] + Len(x[2]) <= y[1] + Len(y[2])
    IN  {Canonical(x[2]) : x \in {x \in spans : ~ \E y \in spans : inside(x, y)}}

\* the parameters of TOOL_MAPPINGS that name a place
LocationParams == {"municipio", "provincia", "region", "aeropuerto"}

\* the text of one call of the last route_and_execute
CallResult(i) == execute(route_call.db, route_call.calls[i].tool, route_call.calls[i].args)

\* C4: for a comparison query that mentions two distinct valid locations and
\* resolves to a tool with a location parameter, route_and_execute calls the
\* executor exactly twice, once per location with that location as the
\* location argument, and returns a combined text that differs from each of
\* the two individual tool results.
C4_ComparisonCallsTwice ==
    (/\ route_call.op = "route_and_execute"
     /\ is_available(route_call.db)
     /\ is_comparison_query(route_call.query)
     /\ Cardinality(MentionedPlaces(route_call.query)) = 2
     /\ detect_tool(route_call.query) # NoTool
     /\ ConfigOf(detect_tool(route_call.query)).param_name \in LocationParams)
    => LET param_name == ConfigOf(detect_tool(route_call.query)).param_name
       IN  /\ Len(route_call.calls) = 2
           /\ {route_call.calls[i].args[param_name] : i \in 1..Len(route_call.calls)}
                = MentionedPlaces(route_call.query)
           /\ route_call.tool = detect_tool(route_call.query)
           /\ \A i \in 1..Len(route_call.calls) : route_call.text # CallResult(i)

\* C5: route_and_execute never returns a success pair (tool, text) whose text
\* contains "no se encontraron" or "error" in any letter case.
C5_NoFailureAsSuccess ==
    (route_call.op = "route_and_execute" /\ route_call.tool # NoTool)
    => /\ ~ Contains(Lower(route_call.text), Lower(NotFoundMarker))
       /\ ~ Contains(Lower(route_call.text), Lower(ErrorMarker))

-----------------------------------------------------------------------------
(* Claims about the menu tree, checked under SpecMenu.                       *)

\* what the last format_menu call worked on
CallId == format_id(menu_tree, menu_call.node_id)
CallNode == format_node(menu_tree, CallId)
AllDangling(node) ==
    node # NoNode /\ node.children # <<>> /\ valid_children(menu_tree, node) = <<>>

\* C7: format_menu returns a non-empty string for every tree state and every
\* node id: the empty tree, a missing node, a node with no children, a node
\* whose children are all dangling references, an exception inside the call.
C7_FormatMenuNeverEmpty ==
    menu_call.op = "format_menu" => Strip(menu_call.text) # <<>>

\* format_menu has answered for a node all of whose children are dangling
C7_Witness ==
    /\ menu_call.op = "format_menu"
    /\ AllDangling(CallNode)
    /\ menu_call.text # <<>>

C9_ChildByNumber ==
    (menu_call.op = "get_child_by_number" /\ get_node(menu_tree, menu_call.node_id) # NoNode)
    => LET children == get_node(menu_tree, menu_call.node_id).children
           n == menu_call.number
       IN  /\ menu_call.node # NoNode
                <=> (1 <= n /\ n <= Len(children)
                        /\ children[n] \in NodeIds(menu_tree.nodes))
           /\ menu_call.node # NoNode => menu_call.node.id = children[n]

\* the last of two or more children was asked for and returned
C9_Witness ==
    /\ menu_call.op = "get_child_by_number"
    /\ menu_call.number >= 2
    /\ menu_call.number = Len(get_node(menu_tree, menu_call.node_id).children)
    /\ menu_call.node # NoNode
    /\ menu_call.node.id = get_node(menu_tree, menu_call.node_id).children[menu_call.number]

\* C9 as stated: a node comes back exactly when 1 <= n <= k
C9_AsStated ==
    (menu_call.op = "get_child_by_number" /\ get_node(menu_tree, menu_call.node_id) # NoNode)
    => (menu_call.node # NoNode
            <=> (1 <= menu_call.number
                    /\ menu_call.number <= Len(get_node(menu_tree, menu_call.node_id).children)))

-----------------------------------------------------------------------------
(* The chat endpoint on one session.  The process was started with a tool    *)
(* executor on a database (or on none), with or without an OpenAI client,    *)
(* with or without the database client of the chat session (whose database   *)
(* holds no tables) and, only with it, the learned-answer memory.  The menu  *)
(* file holds the sample configuration, or is missing and the default menu   *)
(* is built.  The answers of the models are drawn anew at every request.     *)

\* the number of turns of a session that are followed
MaxTurns == 2

\* MenuTree._create_default_menu
DefaultMenuNodes ==
    <<MenuNode(root, <<"M","e","n","u'"," ","P","r","i","n","c","i","p","a","l">>,
               <<"B","i","e","n","v","e","n","i","d","o"," ","a","l"," ","c","h","a","t","b","o",
                     "t"," ","d","e"," ","d","a","t","o","s","."," ","S","e","l","e","c","c","i","o",
                     "n","a"," ","u","n","a"," ","o","p","c","i","o'","n",":">>, "menu",
               <<economico, socio, general>>, <<>>, <<>>, "", <<>>),
      MenuNode(economico, <<"<chart>"," ","D","a","t","o","s"," ","E","c","o","n","o'","m","i","c","o","s">>, <<"I","n","f","o","r","m","a","c","i","o'","n"," ","e","c","o","n","o'","m","i","c",
            "a"," ","y"," ","f","i","n","a","n","c","i","e","r","a">>,
               "menu", <<<<"d","a","t","a","l","a","k","e","_","e","c","o","n","o","m","i","c","o">>, <<"d","w","h","_","e","c","o","n","o","m","i","c","o">>>>,
               <<<<"e","c","o","n","o","m","i","c","o">>, <<"e","c","o","n","o","m","i'","a">>, <<"f","i","n","a","n","z","a","s">>, <<"d","i","n","e","r","o">>, <<"p","r","e","s","u","p","u","e","s","t","o">>,
                 <<"i","n","g","r","e","s","o","s">>, <<"g","a","s","t","o","s">>>>, <<>>, "", <<>>),
      MenuNode(socio, <<"<people>"," ","D","a","t","o","s"," ","S","o","c","i","a","l","e","s">>, <<"I","n","f","o","r","m","a","c","i","o'","n"," ","s","o","c","i","a","l"," ","y",
            " ","d","e","m","o","g","r","a'","f","i","c","a">>, "menu",
               <<<<"d","a","t","a","l","a","k","e","_","s","o","c","i","o">>, <<"d","w","h","_","s","o","c","i","o">>>>,
               <<<<"s","o","c","i","a","l">>, <<"s","o","c","i","e","d","a","d">>, <<"d","e","m","o","g","r","a","f","i'","a">>, <<"p","o","b","l","a","c","i","o'","n">>, <<"c","i","u","d","a","d","a","n","o","s">>,
                 <<"h","a","b","i","t","a","n","t","e","s">>>>, <<>>, "", <<>>),
      MenuNode(general, <<"<info>","<vs16>"," ","I","n","f","o","r","m","a","c","i","o'","n"," ","G","e","n","e","r","a","l">>, <<"I","n","f","o","r","m","a","c","i","o'","n"," ","g","e","n","e","r","a","l"," ",
            "y"," ","a","y","u","d","a">>, "menu",
               <<ayuda, <<"e","s","t","r","u","c","t","u","r","a">>>>,
               <<<<"a","y","u","d","a">>, <<"h","e","l","p">>, <<"i","n","f","o","r","m","a","c","i","o'","n">>, <<"i","n","f","o">>, <<"g","e","n","e","r","a","l">>>>, <<>>, "", <<>>),
      MenuNode(<<"d","a","t","a","l","a","k","e","_","e","c","o","n","o","m","i","c","o">>, <<"<up>"," ","D","a","t","a","l","a","k","e"," ","E","c","o","n","o'","m","i","c","o">>, <<"D","a","t","o","s"," ","e","c","o","n","o'","m","i","c","o","s"," ","e","n"," ",
            "b","r","u","t","o">>,
               "query", <<>>, <<<<"d","a","t","a","l","a","k","e">>, <<"r","a","w">>, <<"b","r","u","t","o">>, <<"e","c","o","n","o'","m","i","c","o">>>>,
               <<"d","a","t","a","l","a","k","e","_","e","c","o","n","o","m","i","c","o">>, "", <<>>),
      MenuNode(<<"d","w","h","_","e","c","o","n","o","m","i","c","o">>, <<"<chart>"," ","D","W","H"," ","E","c","o","n","o'","m","i","c","o">>, <<"D","a","t","a"," ","W","a","r","e","h","o","u","s","e"," ","e","c","o","n","o'",
            "m","i","c","o"," ","p","r","o","c","e","s","a","d","o">>,
               "query", <<>>, <<<<"d","w","h">>, <<"w","a","r","e","h","o","u","s","e">>, <<"p","r","o","c","e","s","a","d","o">>, <<"e","c","o","n","o'","m","i","c","o">>>>,
               <<"d","w","h","_","e","c","o","n","o","m","i","c","o">>, "", <<>>),
      MenuNode(<<"d","a","t","a","l","a","k","e","_","s","o","c","i","o">>, <<"<person>"," ","D","a","t","a","l","a","k","e"," ","S","o","c","i","a","l">>, <<"D","a","t","o","s"," ","s","o","c","i","a","l","e","s"," ","e","n"," ","b","r","u","t","o">>,
               "query", <<>>, <<<<"d","a","t","a","l","a","k","e">>, <<"r","a","w">>, <<"b","r","u","t","o">>, <<"s","o","c","i","a","l">>>>,
               <<"d","a","t","a","l","a","k","e","_","s","o","c","i","o">>, "", <<>>),
      MenuNode(<<"d","w","h","_","s","o","c","i","o">>, <<"<people>"," ","D","W","H"," ","S","o","c","i","a","l">>, <<"D","a","t","a"," ","W","a","r","e","h","o","u","s","e"," ","s","o","c","i","a",
            "l"," ","p","r","o","c","e","s","a","d","o">>,
               "query", <<>>, <<<<"d","w","h">>, <<"w","a","r","e","h","o","u","s","e">>, <<"p","r","o","c","e","s","a","d","o">>, <<"s","o","c","i","a","l">>>>,
               <<"d","w","h","_","s","o","c","i","o">>, "", <<>>),
      MenuNode(ayuda, <<"<qmark>"," ","A","y","u","d","a">>, <<"I","n","f","o","r","m","a","c","i","o'","n"," ","s","o","b","r","e"," ","c","o'",
            "m","o"," ","u","s","a","r"," ","e","l"," ","c","h","a","t","b","o","t">>, "info", <<>>,
               <<<<"a","y","u","d","a">>, <<"h","e","l","p">>, <<"c","o","m","o"," ","u","s","a","r">>, <<"i","n","s","t","r","u","c","c","i","o","n","e","s">>>>, <<>>, "", <<>>),
      MenuNode(<<"e","s","t","r","u","c","t","u","r","a">>, <<"<files>","<vs16>"," ","E","s","t","r","u","c","t","u","r","a"," ","d","e"," ","D","a","t","o","s">>,
               <<"V","e","r"," ","e","s","t","r","u","c","t","u","r","a"," ","d","e"," ","l","a",
                     "s"," ","b","a","s","e","s"," ","d","e"," ","d","a","t","o","s"," ","d","i","s",
                     "p","o","n","i","b","l","e","s">>, "query", <<>>,
               <<<<"e","s","t","r","u","c","t","u","r","a">>, <<"t","a","b","l","a","s">>, <<"c","o","l","u","m","n","a","s">>, <<"s","c","h","e","m","a">>, <<"b","a","s","e"," ","d","e"," ","d","a","t","o","s">>>>,
               <<"s","t","r","u","c","t","u","r","e">>, "", <<>>)>>

\* the menu configuration of the test suite (sample_menu_config)
SampleMenuNodes ==
    <<MenuNode(root, <<"M","e","n","u'"," ","P","r","i","n","c","i","p","a","l">>, <<>>, "menu", <<<<"c","a","t","_","p","r","e","c","i","o","s">>, <<"c","a","t","_","c","e","n","s","o">>>>,
               <<>>, <<>>, "", <<>>),
      MenuNode(<<"c","a","t","_","p","r","e","c","i","o","s">>, <<"<bag>"," ","P","r","e","c","i","o","s"," ","e"," ","I","n","f","l","a","c","i","o'","n">>, <<"D","a","t","o","s"," ","d","e"," ","I","P","C"," ","y"," ","p","r","e","c","i","o","s">>, "menu",
               <<<<"i","p","c","_","u","l","t","i","m","o">>>>, <<<<"i","p","c">>, <<"i","n","f","l","a","c","i","o","n">>, <<"p","r","e","c","i","o","s">>>>, <<>>, "", <<>>),
      MenuNode(<<"i","p","c","_","u","l","t","i","m","o">>, <<"<chart>"," ","U'","l","t","i","m","o"," ","I","P","C">>,
               <<"I'","n","d","i","c","e"," ","d","e"," ","P","r","e","c","i","o","s"," ","a","l",
                     " ","C","o","n","s","u","m","i","d","o","r"," ","m","a'","s"," ","r","e","c","i",
                     "e","n","t","e">>, "tool", <<>>,
               <<<<"i","p","c">>, <<"u","l","t","i","m","o">>, <<"i","n","f","l","a","c","i","o","n">>>>, <<>>, "get_ipc", <<>>),
      MenuNode(<<"c","a","t","_","c","e","n","s","o">>, <<"<people>"," ","P","o","b","l","a","c","i","o'","n"," ","y"," ","C","e","n","s","o">>, <<"D","a","t","o","s"," ","d","e","m","o","g","r","a'","f","i","c","o","s">>, "menu",
               <<<<"c","e","n","s","o","_","m","u","n","i","c","i","p","i","o","s">>>>, <<<<"c","e","n","s","o">>, <<"p","o","b","l","a","c","i","o","n">>>>, <<>>, "", <<>>),
      MenuNode(<<"c","e","n","s","o","_","m","u","n","i","c","i","p","i","o","s">>, <<"<houses>","<vs16>"," ","P","o","b","l","a","c","i","o'","n"," ","p","o","r"," ","M","u","n",
            "i","c","i","p","i","o">>,
               <<"P","o","b","l","a","c","i","o'","n"," ","d","e"," ","c","a","d","a"," ","m","u",
                     "n","i","c","i","p","i","o">>, "tool", <<>>,
               <<<<"m","u","n","i","c","i","p","i","o">>, <<"p","o","b","l","a","c","i","o","n">>>>, <<>>, "get_censo", <<>>)>>

\* the trees MenuTree() builds for a new session
ChatTrees ==
    {[nodes |-> DefaultMenuNodes, root_node_id |-> root],
     [nodes |-> SampleMenuNodes, root_node_id |-> root]}

\* the databases of the tool executor: none, and one that answers
ChatDatabases == {NoDb, [available |-> TRUE, down |-> FALSE, places |-> {goya, salta}]}

\* the question the learned-answer memory may hold, and what the models say
StoredQuestion == <<"<iq>","Q","u","e'"," ","e","s"," ","e","l"," ","I","P","C","?">>
LLMText ==
    <<"E","l"," ","I","P","C"," ","(","I'","n","d","i","c","e"," ","d","e"," ","P","r",
          "e","c","i","o","s"," ","a","l"," ","C","o","n","s","u","m","i","d","o","r",")",
          " ","m","i","d","e"," ","c","o'","m","o"," ","c","a","m","b","i","a","n"," ","l",
          "o","s"," ","p","r","e","c","i","o","s"," ","d","e"," ","u","n","a"," ","c","a",
          "n","a","s","t","a"," ","d","e"," ","b","i","e","n","e","s"," ","y"," ","s","e",
          "r","v","i","c","i","o","s"," ","q","u","e"," ","c","o","n","s","u","m","e","n",
          " ","l","o","s"," ","h","o","g","a","r","e","s",".">>

ChatMemories ==
    {[rows |-> <<>>, down |-> FALSE],
     [rows |-> <<MemoryRow(1, StoredQuestion, LLMText, <<"c","a","t","_","p","r","e","c","i","o","s">>, TRUE, <<4, 5>>, 1)>>,
      down |-> FALSE]}

\* a database in which the generator finds no table of any category
NoTables == <<>>

ChatEnvs ==
    {env \in [db : ChatDatabases, openai : BOOLEAN, db_client : BOOLEAN, learning : BOOLEAN,
              tables : {NoTables}] :
        env.learning => env.db_client}

\* the messages a user sends
ChatInputs ==
    {<<>>, <<"m","e","n","u">>, <<"1">>, <<"3">>, <<"+","1">>, <<"<sup2>">>, <<"h","o","l","a">>, <<"a","y","u","d","a">>, <<"a","n","t","e","r","i","o","r">>,
     <<"q","u","e'"," ","e","s"," ","e","l"," ","I","P","C">>, <<"p","o","b","l","a","c","i","o","n"," ","d","e"," ","g","o","y","a">>, <<"d","a","m","e"," ","e","l"," ","i","p","c">>, <<"e","s","t","r","u","c","t","u","r","a">>}

\* what the model may answer to the classification prompt
Verdicts ==
    {Unparsed, IntentResult("consulta_datos", "ipc", <<>>, FALSE),
     IntentResult("pregunta_conceptual", NoTool, <<>>, FALSE), _default_response("saludo")}

\* what a model may answer to a request for a text: nothing, or a text
LLMTexts == {<<>>, LLMText}

\* the state of a session right after api.py 357-514 created it; the
\* classifier's cache and the memory are globals of the process
NewSession(tree, memory, cache) ==
    [menu_tree |-> tree, node |-> root, history |-> <<root>>,
     messages |-> <<system_message>>, category |-> NoTool, menu_enhanced |-> FALSE,
     memory |-> memory, cache |-> cache, topic |-> NoTool]

NewTurn(s, user_input) ==
    [s |-> s, user_input |-> user_input, response |-> <<>>, tool |-> NoTool,
     done |-> FALSE, said |-> FALSE, enrich |-> FALSE, save |-> NoSave, ran |-> {},
     tools |-> <<>>, llm |-> <<>>, intent |-> _default_response("<none>"),
     skip_menu_search |-> FALSE, detected |-> NoTool]

\* the process after startup: no session yet.  s holds what the first turn
\* creates the session with
Started(env, tree, memory) ==
    [op |-> "started", env |-> env, turns |-> 0, open |-> FALSE,
     s |-> NewSession(tree, memory, <<>>), raw |-> <<>>,
     before |-> NewSession(tree, memory, <<>>),
     last |-> NewTurn(NewSession(tree, memory, <<>>), <<>>)]

InitChat ==
    /\ chat \in {Started(env, tree, memory) :
                    env \in ChatEnvs, tree \in ChatTrees, memory \in ChatMemories}
    /\ chat.env.learning \/ chat.s.memory.rows = <<>>
    /\ sessions = Idle
    /\ menu_tree = [nodes |-> <<>>, root_node_id |-> NoneId]
    /\ menu_call = NoCall
    /\ sim_call = NoSimCall
    /\ route_call = NoRouteCall
    /\ norm_call = Idle
    /\ learn_call = Idle
    /\ classifier = Idle
    /\ llm_call = Idle
    /\ load_call = Idle
    /\ http_call = Idle

\* the turn is over: the session keeps its state and the reply is sent
Replied(c, raw, before, t) ==
    [c EXCEPT !.op = "turn", !.turns = @ + 1, !.open = TRUE, !.s = t.s, !.raw = raw,
              !.before = before, !.last = t]

\* a turn that ran a tool waits for the enricher's model, where it asks it
Finished(c, raw, before, t) ==
    {Replied(c, raw, before, Conclude(t, c.env, llm_text)) :
        llm_text \in (IF t.enrich THEN LLMTexts ELSE {<<>>})}

\* the states the turn may end in once the router has run
after_router(c, raw, before, routed) ==
    IF routed.done THEN Finished(c, raw, before, routed)
    ELSE {Replied(c, raw, before, open_stage(routed, c.env, llm_text)) :
            llm_text \in LLMTexts}

\* api.py 840-1252, from the router on: the states the turn may end in
routed_stage(c, raw, before, understood) ==
    UNION {after_router(c, raw, before, data_query(understood, c.env, locations)) :
            locations \in Orderings(found_locations(understood.user_input))}

\* the states the turn may end in once the intent stage has run
after_intent(c, raw, before, understood) ==
    IF understood.done THEN Finished(c, raw, before, understood)
    ELSE routed_stage(c, raw, before, understood)

\* api.py 654-1252, from the classifier on; the model is asked for a verdict
\* when a client is configured and the message is not in the cache
classified_stage(c, raw, before, shortcut) ==
    UNION {after_intent(c, raw, before, intent_stage(shortcut, c.env, verdict)) :
            verdict \in (IF c.env.openai
                            /\ Cached(before.cache, cache_key(shortcut.user_input)) = {}
                         THEN Verdicts ELSE {Unparsed})}

\* the states the turn may end in once the menu shortcuts have run
after_shortcuts(c, message, shortcut) ==
    IF shortcut.done THEN Finished(c, message, c.s, shortcut)
    ELSE classified_stage(c, message, c.s, shortcut)

\* chat_endpoint: the states the process may be in after it answered message
chat_endpoint(c, message) ==
    after_shortcuts(c, message, menu_shortcuts(NewTurn(c.s, Strip(message)), c.env))

\* one message of the user is answered
ChatTurn ==
    /\ chat.op \in {"started", "turn"}
    /\ chat.turns < MaxTurns
    /\ \E message \in ChatInputs : chat' \in chat_endpoint(chat, message)
    /\ UNCHANGED <<menu_vars, sim_vars, router_vars, unit_vars, sessions>>

NextChat == ChatTurn

SpecChat == InitChat /\ [][NextChat]_vars

-----------------------------------------------------------------------------
(* What a turn of the chat endpoint is answered by.                          *)

\* the steps of the endpoint that classify or search, besides the numeric
\* selection on the current node
ClassifyingSteps ==
    {"find_node_by_keyword", "memory_lookup", "query_router", "menu_option_match",
     "detect_intent", "related_options"}

\* the intent of a turn that no classifier, LLM or rule-based, has set
Unclassified == _default_response("<none>")

\* the child that get_child_by_number gives for the number typed, on the node
\* the session was at when the message came
TypedChild ==
    numbered_child(chat.before.menu_tree, chat.before.node,
                   get_node(chat.before.menu_tree, chat.before.node), int(chat.raw))

\* C1: a turn whose raw input parses as an integer is resolved with
\* get_child_by_number on the session's current node and answered from that
\* step alone: no keyword matcher, no intent classifier, no memory lookup
\* and no query router runs in that turn; and a number that selects a child
\* whose action is a tool invokes that tool and returns its text (as the
\* tool gave it, or as the enricher's model rewrote it).
C1_IntegerInputAnsweredByNumberAlone ==
    (chat.op = "turn" /\ ~ IntRaises(chat.raw)) =>
        /\ "numeric_selection" \in chat.last.ran
        /\ chat.last.ran \cap ClassifyingSteps = {}
        /\ chat.last.intent = Unclassified
        /\ (TypedChild # NoNode /\ TypedChild.action = "tool" /\ TypedChild.tool # ""
                /\ is_available(chat.env.db))
            => /\ chat.last.tools = <<[tool |-> TypedChild.tool,
                                       args |-> tool_args_of(TypedChild)]>>
               /\ chat.last.response
                    \in {execute(chat.env.db, TypedChild.tool, tool_args_of(TypedChild)), LLMText}

\* "+1" is read as a number by int() and not by isdigit(): the numeric
\* selection is passed over and find_node_by_keyword runs
C1_SignedNumberGoesToKeywordMatcher ==
    /\ chat.op = "turn"
    /\ chat.raw = <<"+","1">>
    /\ ~ IntRaises(chat.raw)
    /\ "numeric_selection" \notin chat.last.ran
    /\ "find_node_by_keyword" \in chat.last.ran

\* the rows of the memory, as the turn found it, whose normalized question
\* is the normalized text of the message
StoredExactly ==
    {i \in 1..Len(chat.before.memory.rows) :
        chat.before.memory.rows[i].normalized_question = _normalize_text(chat.raw)}

\* C2: a turn whose text normalizes to exactly the normalized question of a
\* stored entry of the learned memory returns the stored response of that
\* entry, invokes no tool and no LLM (the LLM intent classifier included),
\* and raises the use count of the entry by exactly one.
C2_StoredAnswerShortCircuits ==
    (chat.op = "turn" /\ chat.env.learning /\ ~ chat.before.memory.down) =>
        \A i \in StoredExactly :
            /\ chat.last.response = chat.before.memory.rows[i].response
            /\ chat.last.tools = <<>>
            /\ chat.last.llm = <<>>
            /\ chat.s.memory.rows[i].use_count = chat.before.memory.rows[i].use_count + 1

\* a question that is stored in the memory is answered by the tool of the
\* menu node it names, and the memory is never asked
C2_StoredQuestionRunsTool ==
    /\ chat.op = "turn"
    /\ chat.env.learning
    /\ StoredExactly # {}
    /\ chat.last.tools # <<>>
    /\ "memory_lookup" \notin chat.last.ran
    /\ \A i \in StoredExactly :
            chat.s.memory.rows[i].use_count = chat.before.memory.rows[i].use_count

\* C3: a turn whose text is a conceptual question about a known indicator
\* executes no data tool: the reply is what the LLM answers to the request
\* that carries the instruction not to show numeric data.  (Stated for a
\* process with an LLM client, a memory that holds no answer, and a
\* classifier that, where it ran, found a conceptual question.)
C3_ConceptualQuestionRunsNoTool ==
    (/\ chat.op = "turn"
     /\ is_conceptual_question(chat.raw)
     /\ detect_tool(chat.raw) # NoTool
     /\ chat.env.openai
     /\ chat.before.memory.rows = <<>>
     /\ chat.last.intent.intencion \in {"<none>", "pregunta_conceptual"})
    => /\ chat.last.tools = <<>>
       /\ \E k \in 1..Len(chat.last.llm) : chat.last.llm[k] = "conceptual"

\* "qué es el IPC" is a conceptual question, and the get_ipc tool is run
C3_ConceptualQuestionRunsTool ==
    /\ chat.op = "turn"
    /\ chat.raw = <<"q","u","e'"," ","e","s"," ","e","l"," ","I","P","C">>
    /\ is_conceptual_question(chat.raw)
    /\ chat.env.openai
    /\ \E k \in 1..Len(chat.last.tools) : chat.last.tools[k].tool = "get_ipc"
    /\ \A k \in 1..Len(chat.last.llm) : chat.last.llm[k] # "conceptual"

-----------------------------------------------------------------------------
(* Ties in detect_tool.                                                      *)

\* the scores the loop of detect_tool gives the tools, in the order of the dict
query_scores(query) == [i \in 1..Len(TOOL_MAPPINGS) |-> tool_score(Lower(query), i)]

\* the tools that share the highest score of a query, where a keyword matched
tied_tools(scores, highest) ==
    IF highest > 0 THEN {i \in DOMAIN scores : scores[i] = highest} ELSE {}

TiedTools(query) ==
    tied_tools(query_scores(query),
               SetMax({query_scores(query)[i] : i \in 1..Len(TOOL_MAPPINGS)}))

\* C11: when two or more tools tie for the highest keyword score of a query,
\* detect_tool returns None and picks none of them.
C11_TieReturnsNone ==
    (route_call.op = "detect_tool" /\ Cardinality(TiedTools(route_call.query)) >= 2)
        => route_call.tool = NoTool

\* a query of one whole-word keyword of each of two tools was routed to the
\* tool that comes first in TOOL_MAPPINGS
C11_TieGoesToFirstTool ==
    /\ route_call.op = "detect_tool"
    /\ Cardinality(TiedTools(route_call.query)) >= 2
    /\ route_call.tool = TOOL_MAPPINGS[SetMin(TiedTools(route_call.query))].name

-----------------------------------------------------------------------------
(* _normalize_text on its own: a caller normalizes a text, and normalizes    *)
(* what it got once more.                                                    *)

\* the longest text normalized
MaxNormLen == 4

\* the characters of the texts: a letter, a capital with an accent, a digit,
\* white space of two kinds, punctuation
NormChars == {"a", "A'", "1", " ", "<tab>", "?"}

RECURSIVE TextsUpTo(_)
TextsUpTo(n) ==
    IF n = 0 THEN {<<>>}
    ELSE TextsUpTo(n - 1)
            \cup {Append(s, c) : s \in {x \in TextsUpTo(n - 1) : Len(x) = n - 1}, c \in NormChars}

NormTexts == TextsUpTo(MaxNormLen)

InitNormalize ==
    /\ norm_call \in {[op |-> "pending", text |-> x, once |-> <<>>, twice |-> <<>>] :
                        x \in NormTexts}
    /\ menu_tree = [nodes |-> <<>>, root_node_id |-> NoneId]
    /\ menu_call = NoCall
    /\ sim_call = NoSimCall
    /\ route_call = NoRouteCall
    /\ chat = NoChat
    /\ sessions = Idle
    /\ learn_call = Idle
    /\ classifier = Idle
    /\ llm_call = Idle
    /\ load_call = Idle
    /\ http_call = Idle

\* the text is normalized, and the normalized form is normalized again
NormalizeText ==
    /\ norm_call.op = "pending"
    /\ norm_call' = [norm_call EXCEPT
                        !.op = "_normalize_text",
                        !.once = _normalize_text(norm_call.text),
                        !.twice = _normalize_text(_normalize_text(norm_call.text))]
    /\ UNCHANGED <<menu_vars, sim_vars, router_vars, chat_vars, learn_call, classifier,
                   llm_call, load_call, http_call>>

NextNormalize == NormalizeText

SpecNormalize == InitNormalize /\ [][NextNormalize]_vars

\* C12: for every input string x, normalizing the normalized form of x gives
\* the normalized form of x again.
C12_NormalizeIdempotent ==
    norm_call.op = "_normalize_text" => norm_call.twice = norm_call.once

\* a text whose punctuation stood between its end and a space: the space is
\* left at the end of the normalized form and goes at the second pass
C12_SecondPassStripsAgain ==
    /\ norm_call.op = "_normalize_text"
    /\ norm_call.text = <<"a", " ", "?">>
    /\ norm_call.once = <<"a", " ">>
    /\ norm_call.twice = <<"a">>

-----------------------------------------------------------------------------
(* LearningMemory.learn on its own: a table of at most two learned answers,  *)
(* and one answer that is learned.                                           *)

\* the most rows the table holds before the call
MaxRows == 2

LearnQuestions ==
    {<<"i","n","f","l","a","c","i","o","n"," ","m","e","n","s","u","a","l">>, <<"d","i","m","e"," ","c","u","a","l"," ","e","s"," ","i","n","f","l","a","c","i",
          "o","n"," ","m","e","n","s","u","a","l">>, <<"<iq>","I","n","f","l","a","c","i","o'","n"," ","m","e","n","s","u","a","l","?">>,
     <<"d","o","l","a","r"," ","b","l","u","e">>, <<"h","o","l","a">>}

StoredQuestions == {<<"i","n","f","l","a","c","i","o","n"," ","m","e","n","s","u","a","l">>, <<"d","o","l","a","r"," ","b","l","u","e">>}

OldAnswer == <<"r","e","s","p","u","e","s","t","a"," ","g","u","a","r","d","a","d","a">>
NewAnswer == <<"r","e","s","p","u","e","s","t","a"," ","n","u","e","v","a">>

\* the rows a table may hold at position id
StoredRows(id) ==
    {MemoryRow(id, q, OldAnswer, <<"c","a","t","_","p","r","e","c","i","o","s">>, FALSE, quality, count) :
        q \in StoredQuestions, quality \in {<<4, 5>>, <<9, 10>>}, count \in {1, 3}}

LearnMemories ==
    {[rows |-> rows, down |-> down] :
        rows \in {<<>>} \cup {<<r>> : r \in StoredRows(1)}
                    \cup {<<r1, r2>> : r1 \in StoredRows(1), r2 \in StoredRows(MaxRows)},
        down \in BOOLEAN}

InitLearn ==
    /\ learn_call \in {[op |-> "pending", memory |-> memory, question |-> question,
                        response |-> NewAnswer, quality_score |-> quality_score,
                        after |-> memory] :
                            memory \in LearnMemories, question \in LearnQuestions,
                            quality_score \in {<<4, 5>>, <<9, 10>>}}
    /\ menu_tree = [nodes |-> <<>>, root_node_id |-> NoneId]
    /\ menu_call = NoCall
    /\ sim_call = NoSimCall
    /\ route_call = NoRouteCall
    /\ chat = NoChat
    /\ sessions = Idle
    /\ norm_call = Idle
    /\ classifier = Idle
    /\ llm_call = Idle
    /\ load_call = Idle
    /\ http_call = Idle

\* learn(question, response, category, False, quality_score)
Learn ==
    /\ learn_call.op = "pending"
    /\ learn_call' = [learn_call EXCEPT
                        !.op = "learn",
                        !.after = learn(learn_call.memory, learn_call.question,
                                        learn_call.response, <<"c","a","t","_","p","r","e","c","i","o","s">>, FALSE,
                                        learn_call.quality_score)]
    /\ UNCHANGED <<menu_vars, sim_vars, router_vars, chat_vars, norm_call, classifier,
                   llm_call, load_call, http_call>>

NextLearn == Learn

SpecLearn == InitLearn /\ [][NextLearn]_vars

\* the rows that are as similar to the question as learn asks for: the same
\* normalized question (similarity 1.0) or a similarity of 0.9 or more
NearDuplicates(rows, question) ==
    {i \in 1..Len(rows) :
        \/ rows[i].normalized_question = _normalize_text(question)
        \/ ~ FracLess(_calculate_similarity(question, rows[i].question), <<9, 10>>)}

\* row i after learn found it: replaced by a better answer, or counted
UpdatedRow(row, response, quality_score) ==
    IF FracLess(row.quality_score, quality_score)
    THEN [row EXCEPT !.response = response, !.quality_score = quality_score,
                     !.use_count = @ + 1]
    ELSE [row EXCEPT !.use_count = @ + 1]

\* C13: learn looks for an entry with a similarity of 0.9 or more to the
\* question.  Where there is one no row is inserted, and the response of one
\* such entry is replaced exactly when the new quality score is strictly
\* higher than the stored one (otherwise only its use counter goes up by one);
\* where there is none exactly one new row is inserted.
C13_LearnUpdatesOrInserts ==
    (learn_call.op = "learn" /\ ~ learn_call.memory.down) =>
        IF NearDuplicates(learn_call.memory.rows, learn_call.question) # {}
        THEN \E i \in NearDuplicates(learn_call.memory.rows, learn_call.question) :
                learn_call.after.rows =
                    [learn_call.memory.rows EXCEPT
                        ![i] = UpdatedRow(@, learn_call.response, learn_call.quality_score)]
        ELSE /\ Len(learn_call.after.rows) = Len(learn_call.memory.rows) + 1
             /\ SubSeq(learn_call.after.rows, 1, Len(learn_call.memory.rows))
                    = learn_call.memory.rows

\* the table held "inflacion mensual"; the same question behind three stop
\* words was learned as a second row
C13_NearDuplicateInserted ==
    /\ learn_call.op = "learn"
    /\ ~ learn_call.memory.down
    /\ learn_call.question = <<"d","i","m","e"," ","c","u","a","l"," ","e","s"," ","i","n","f","l","a","c","i",
          "o","n"," ","m","e","n","s","u","a","l">>
    /\ NearDuplicates(learn_call.memory.rows, learn_call.question) # {}
    /\ Len(learn_call.after.rows) = Len(learn_call.memory.rows) + 1

-----------------------------------------------------------------------------
(* The global LLMIntentClassifier of one process: classify is called on one  *)
(* message after the other.  The process has the OpenAI client or has none,  *)
(* from its start on; each request to the model is answered anew.            *)

\* the number of classify calls that are followed
MaxCalls == 3

ClassifyInputs ==
    {<<>>, <<"h","o","l","a">>, <<"h","o","l","a",","," ","q","u","e'"," ","e","s"," ","e","l"," ","I","P","C">>, <<" ","H","o","l","a",","," ","q","u","e'"," ","e","s"," ","e","l"," ","I","P","C">>, <<"d","a","m","e"," ","e","l"," ","i","p","c">>}

\* a classifier with nothing cached and no call made
NewClassifier(client) == [op |-> "started", client |-> client, cache |-> <<>>, calls |-> <<>>]

InitClassify ==
    /\ classifier \in {NewClassifier(client) : client \in BOOLEAN}
    /\ menu_tree = [nodes |-> <<>>, root_node_id |-> NoneId]
    /\ menu_call = NoCall
    /\ sim_call = NoSimCall
    /\ route_call = NoRouteCall
    /\ chat = NoChat
    /\ sessions = Idle
    /\ norm_call = Idle
    /\ learn_call = Idle
    /\ llm_call = Idle
    /\ load_call = Idle
    /\ http_call = Idle

\* the turn classify works on: only the message and the cache are read
ClassifyTurn(c, user_message) ==
    NewTurn(NewSession([nodes |-> <<>>, root_node_id |-> NoneId],
                       [rows |-> <<>>, down |-> FALSE], c.cache),
            user_message)

\* the classifier after classify returned: the cache it holds now, and the
\* call with its result and whether the model was asked
Classified(c, user_message, t) ==
    [c EXCEPT !.op = "classify", !.cache = t.s.cache,
              !.calls = Append(@, [user_message |-> user_message, result |-> t.intent,
                                   asked |-> t.llm # <<>>])]

\* classify(user_message): the model is asked when the process has a client
\* and the message is not in the cache, and answers with one of Verdicts
Classify ==
    /\ Len(classifier.calls) < MaxCalls
    /\ \E user_message \in ClassifyInputs :
        \E verdict \in (IF classifier.client
                            /\ Cached(classifier.cache, cache_key(user_message)) = {}
                        THEN Verdicts ELSE {Unparsed}) :
            classifier' = Classified(classifier, user_message,
                                     classify(ClassifyTurn(classifier, user_message),
                                              [openai |-> classifier.client], verdict))
    /\ UNCHANGED <<menu_vars, sim_vars, router_vars, chat_vars, norm_call, learn_call,
                   llm_call, load_call, http_call>>

NextClassify == Classify

SpecClassify == InitClassify /\ [][NextClassify]_vars

\* the message holds a greeting and a question
GreetsAndAsks(user_message) ==
    /\ AnyIn(<<<<"h","o","l","a">>, <<"b","u","e","n","o","s">>, <<"b","u","e","n","a","s">>>>, Lower(user_message))
    /\ AnyIn(<<<<"q","u","e"," ","e","s">>, <<"q","u","e'"," ","e","s">>>>, Lower(user_message))

\* C14: for every message that holds both a greeting and a question, classify
\* returns the intent of the question and never the greeting intent, with the
\* model and with the rules of the fallback alike.
C14_QuestionBeforeGreeting ==
    \A k \in 1..Len(classifier.calls) :
        GreetsAndAsks(classifier.calls[k].user_message)
            => classifier.calls[k].result.intencion = "pregunta_conceptual"

\* without a client, "hola, qué es el IPC" was classified as a greeting
C14_GreetingWins ==
    /\ ~ classifier.client
    /\ \E k \in 1..Len(classifier.calls) :
        /\ classifier.calls[k].user_message = <<"h","o","l","a",","," ","q","u","e'"," ","e","s"," ","e","l"," ","I","P","C">>
        /\ ~ classifier.calls[k].asked
        /\ classifier.calls[k].result.intencion = "saludo"

\* the calls made on messages that are equal after lower-casing and trimming
SameKey(calls, k) ==
    {j \in 1..Len(calls) : cache_key(calls[j].user_message) = cache_key(calls[k].user_message)}

\* C15: of the classify calls whose messages are equal after lower-casing and
\* trimming at most one asks the model; every later call returns the result
\* of that call and asks nothing, and the result stays in the cache.
C15_CachedForTheProcess ==
    \A k \in 1..Len(classifier.calls) :
        classifier.calls[k].asked =>
            /\ \A j \in SameKey(classifier.calls, k) :
                    j > k => /\ ~ classifier.calls[j].asked
                             /\ classifier.calls[j].result = classifier.calls[k].result
            /\ \E i \in 1..Len(classifier.cache) :
                    /\ classifier.cache[i].key = cache_key(classifier.calls[k].user_message)
                    /\ classifier.cache[i].result = classifier.calls[k].result

\* the same question was classified twice, in two spellings: the model was
\* asked the first time, and the second call returned its verdict
C15_Witness ==
    /\ Len(classifier.calls) >= 2
    /\ classifier.calls[1].user_message = <<"h","o","l","a",","," ","q","u","e'"," ","e","s"," ","e","l"," ","I","P","C">>
    /\ classifier.calls[1].asked
    /\ classifier.calls[2].user_message = <<" ","H","o","l","a",","," ","q","u","e'"," ","e","s"," ","e","l"," ","I","P","C">>
    /\ ~ classifier.calls[2].asked
    /\ classifier.calls[2].result = classifier.calls[1].result

-----------------------------------------------------------------------------
(* The LLM step of a turn that found nothing in the database: the request to *)
(* Groq, the fallback inside LLMClient.get_response, and the second request  *)
(* to OpenAI that chat_endpoint makes itself.  What a service does with a    *)
(* request is fixed when the request is sent.                                *)

\* what Groq and OpenAI may do with a request
ServiceOutcomes ==
    {Outcome("ok", 200, LLMText), Outcome("ok", 200, <<>>), Outcome("malformed", 200, <<>>),
     Outcome("connection", 0, <<>>), Outcome("silent", 0, <<>>)}
        \cup {Outcome("status", status, <<>>) : status \in {400, 401, 429, 500}}

\* the step before its first request; openai tells whether the process has
\* an OpenAI client
NewLLMStep(openai) ==
    [op |-> "start", openai |-> openai, waiting |-> "none", client |-> "none",
     service |-> Outcome("none", 0, <<>>), requests |-> <<>>, llm_response |-> NoneValue,
     response |-> <<>>]

InitLLM ==
    /\ llm_call \in {NewLLMStep(openai) : openai \in BOOLEAN}
    /\ menu_tree = [nodes |-> <<>>, root_node_id |-> NoneId]
    /\ menu_call = NoCall
    /\ sim_call = NoSimCall
    /\ route_call = NoRouteCall
    /\ chat = NoChat
    /\ sessions = Idle
    /\ norm_call = Idle
    /\ learn_call = Idle
    /\ classifier = Idle
    /\ load_call = Idle
    /\ http_call = Idle

\* requests.post: the request is on its way to the service
Sent(c, waiting, client, outcome) ==
    [c EXCEPT !.op = "waiting", !.waiting = waiting, !.client = client, !.service = outcome,
              !.requests = Append(@, [client |-> client, outcome |-> outcome])]

\* the turn is answered
Answer(c, result) ==
    [c EXCEPT !.op = "done", !.waiting = "none", !.llm_response = result,
              !.response = llm_step_response(result)]

\* api.py 1174-1187: LLMClient.get_response returned result (or raised); the
\* states the step may go to
after_get_response(c, result) ==
    IF result.kind # "raised" /\ Falsy(result) /\ c.openai
    THEN {Sent(c, "retry", "openai", outcome) : outcome \in ServiceOutcomes}
    ELSE {Answer(c, result)}

\* chat_session.llm_client.get_response(current_messages, fallback_client=...)
\* sends its request to Groq
AskGroq ==
    /\ llm_call.op = "start"
    /\ \E outcome \in ServiceOutcomes : llm_call' = Sent(llm_call, "primary", "groq", outcome)
    /\ UNCHANGED <<menu_vars, sim_vars, router_vars, chat_vars, norm_call, learn_call,
                   classifier, load_call, http_call>>

\* the request to Groq comes back: the content is returned, or the fallback
\* client is asked, or None is returned
GroqReturns ==
    /\ llm_call.op = "waiting" /\ llm_call.waiting = "primary"
    /\ Completes(llm_call.client, llm_call.service)
    /\ llm_call' \in
        (IF switches_to_fallback(llm_call.service, llm_call.openai)
         THEN {Sent(llm_call, "fallback", "openai", outcome) : outcome \in ServiceOutcomes}
         ELSE after_get_response(llm_call, groq_get_response(llm_call.service)))
    /\ UNCHANGED <<menu_vars, sim_vars, router_vars, chat_vars, norm_call, learn_call,
                   classifier, load_call, http_call>>

\* the request of the fallback inside LLMClient.get_response comes back
FallbackReturns ==
    /\ llm_call.op = "waiting" /\ llm_call.waiting = "fallback"
    /\ Completes(llm_call.client, llm_call.service)
    /\ llm_call' \in after_get_response(llm_call, fallback_get_response(llm_call.service))
    /\ UNCHANGED <<menu_vars, sim_vars, router_vars, chat_vars, norm_call, learn_call,
                   classifier, load_call, http_call>>

\* the request chat_endpoint sent to OpenAI itself comes back
RetryReturns ==
    /\ llm_call.op = "waiting" /\ llm_call.waiting = "retry"
    /\ Completes(llm_call.client, llm_call.service)
    /\ llm_call' = Answer(llm_call, openai_get_response(llm_call.service))
    /\ UNCHANGED <<menu_vars, sim_vars, router_vars, chat_vars, norm_call, learn_call,
                   classifier, load_call, http_call>>

NextLLM == AskGroq \/ GroqReturns \/ FallbackReturns \/ RetryReturns

SpecLLM == InitLLM /\ [][NextLLM]_vars

\* the handler runs on: a request that came back is dealt with
SpecLLMFair == SpecLLM /\ WF_vars(NextLLM)

\* the service gave no answer to the request
FailedRequest(request) ==
    request.outcome.kind \in {"status", "connection", "silent", "malformed"}

\* C16: when the request to the primary LLM fails with a 5xx, authentication
\* or rate-limit status and there is a fallback client, the fallback is asked;
\* and when every request of the step failed, the result of the step is None
\* and the turn is answered with the fixed apology.
C16_FallbackThenApology ==
    llm_call.op = "done" =>
        /\ switches_to_fallback(llm_call.requests[1].outcome, llm_call.openai)
            => (Len(llm_call.requests) >= 2 /\ llm_call.requests[2].client = "openai")
        /\ (\A i \in 1..Len(llm_call.requests) : FailedRequest(llm_call.requests[i]))
            => (llm_call.llm_response = NoneValue /\ llm_call.response = error_msg)

\* Groq answered 500 and OpenAI answered 500: the turn was answered with the
\* text OpenAIClient makes of its exception
C16_FallbackErrorIsTheAnswer ==
    /\ llm_call.op = "done"
    /\ Len(llm_call.requests) = 2
    /\ llm_call.requests[1].outcome = Outcome("status", 500, <<>>)
    /\ llm_call.requests[2] = [client |-> "openai", outcome |-> Outcome("status", 500, <<>>)]
    /\ llm_call.response = openai_error_reply(Outcome("status", 500, <<>>))

\* C19: every request of the step is bounded by a timeout, so that the step
\* returns a response even when a service never answers.
C19_StepAlwaysReturns == <>(llm_call.op = "done")

\* the step waits for OpenAI, which never answers, on a request without a
\* timeout
C19_WaitsForever ==
    /\ llm_call.op = "waiting"
    /\ llm_call.client = "openai"
    /\ llm_call.service.kind = "silent"
    /\ ~ ENABLED NextLLM

-----------------------------------------------------------------------------
(* What a turn that failed tells the user.                                   *)

\* the message int() raises with, up to the text it was given
InvalidLiteralText == <<"i","n","v","a","l","i","d"," ","l","i","t","e","r","a","l"," ","f","o","r"," ",
      "i","n","t","(",")"," ","w","i","t","h"," ","b","a","s","e"," ","1","0">>

\* the turn ran into the ValueError of int(): the message passed isdigit()
\* and is no decimal literal
IntFailed(message) == isdigit(Strip(message)) /\ IntRaises(Strip(message))

\* C17: no response holds the message of an exception: a turn in which
\* something failed is answered with the friendly apology and nothing else.
C17_NoExceptionTextInResponse ==
    chat.op = "turn" =>
        /\ ~ Contains(chat.last.response, InvalidLiteralText)
        /\ IntFailed(chat.raw) => chat.last.response = error_msg

\* the message was a superscript two, and the reply ends with str(e) of the
\* ValueError
C17_ExceptionTextShown ==
    /\ chat.op = "turn"
    /\ chat.raw = <<"<sup2>">>
    /\ chat.last.response = ErrorPrefix \o InvalidLiteral(chat.raw)

-----------------------------------------------------------------------------
(* One request to /api/chat and the HTTP response to it.  The request names  *)
(* a session or names none; the process finished its startup or did not.     *)

SessionIds == {NoneId, <<>>, <<"a","b","c">>}

\* a handler that answers in the name of the default session always
default_session(chat_message) == <<"d","e","f","a","u","l","t">>

\* "chat_message.session_id or 'default'"
session_of(chat_message) ==
    IF chat_message.session_id \in {NoneId, <<>>} THEN <<"d","e","f","a","u","l","t">>
    ELSE chat_message.session_id

\* ChatResponse(response=..., session_id=...), sent with status 200
ChatResponse(response, session_id) ==
    [status |-> 200, response |-> response, session_id |-> session_id]

\* raise HTTPException(status_code=503, detail="Chat session not initialized")
NotInitialized ==
    [status |-> 503, response |-> <<"C","h","a","t"," ","s","e","s","s","i","o","n"," ","n","o","t"," ","i","n","i",
          "t","i","a","l","i","z","e","d">>, session_id |-> NoneId]

InitEndpoint ==
    /\ http_call \in {[op |-> "request", initialized |-> initialized,
                       chat_message |-> [session_id |-> session_id, message |-> message],
                       process |-> Started(env, tree, memory), reply |-> NotInitialized] :
                            initialized \in BOOLEAN, session_id \in SessionIds,
                            message \in ChatInputs, env \in ChatEnvs, tree \in ChatTrees,
                            memory \in ChatMemories}
    /\ http_call.process.env.learning \/ http_call.process.s.memory.rows = <<>>
    /\ menu_tree = [nodes |-> <<>>, root_node_id |-> NoneId]
    /\ menu_call = NoCall
    /\ sim_call = NoSimCall
    /\ route_call = NoRouteCall
    /\ chat = NoChat
    /\ sessions = Idle
    /\ norm_call = Idle
    /\ learn_call = Idle
    /\ classifier = Idle
    /\ llm_call = Idle
    /\ load_call = Idle

\* the replies chat_endpoint may send to the first message of a session:
\* every return of the handler, the one of "except Exception" included, is a
\* ChatResponse with the id of the session
replies(c, chat_message) ==
    {ChatResponse(replied.last.response, session_of(chat_message)) :
        replied \in chat_endpoint(c, chat_message.message)}

\* POST /api/chat
PostChat ==
    /\ http_call.op = "request"
    /\ \E reply \in (IF http_call.initialized
                     THEN replies(http_call.process, http_call.chat_message)
                     ELSE {NotInitialized}) :
            http_call' = [http_call EXCEPT !.op = "responded", !.reply = reply]
    /\ UNCHANGED <<menu_vars, sim_vars, router_vars, chat_vars, norm_call, learn_call,
                   classifier, llm_call, load_call>>

NextEndpoint == PostChat

SpecEndpoint == InitEndpoint /\ [][NextEndpoint]_vars

-----------------------------------------------------------------------------
(* MenuTree(): the constructor reads the menu file, and builds and saves the *)
(* default menu where reading fails.  The menu file is missing, holds text   *)
(* that is no JSON, or holds a configuration: a list of node records and,    *)
(* perhaps, the id of the root.  A JSON object is a function of its keys.    *)

MaxFileNodes == 2

extra == <<"e","x","t","r","a">>

\* the node records a file may hold: a node of its own, the same without a
\* title, a root that names a child twice, and a node with the id of one of
\* the default menu
FileNodeData ==
    {[id |-> extra, title |-> <<"E","x","t","r","a">>],
     [id |-> extra],
     [id |-> root, title |-> <<"I","n","i","c","i","o">>, children |-> <<extra, extra>>],
     [id |-> economico, title |-> <<"O","t","r","o">>, description |-> <<"d","e"," ","a","r","c","h","i","v","o">>]}

RootIds == {root, extra, gone}

FileConfigs ==
    {[nodes |-> datas] : datas \in SeqsUpTo(FileNodeData, MaxFileNodes)}
    \cup {[nodes |-> datas, root_node_id |-> id] :
            datas \in SeqsUpTo(FileNodeData, MaxFileNodes), id \in RootIds}

MenuFiles ==
    {[kind |-> "missing"], [kind |-> "text"]}
    \cup {[kind |-> "json", config |-> config] : config \in FileConfigs}

\* the values of DB_PORT in the environment
Unset == <<"<unset>">>
DbPorts == {Unset, <<"3","3","0","6">>, <<"a","b","c">>}

\* dict.get(key, default)
data_get(data, key, default) == IF key \in DOMAIN data THEN data[key] ELSE default

\* MenuNode.from_dict raises KeyError: data["id"], data["title"]
from_dict_fails(data) == ~ ({"id", "title"} \subseteq DOMAIN data)

\* MenuNode.from_dict
from_dict(data) ==
    MenuNode(data["id"], data["title"], data_get(data, "description", <<>>),
             data_get(data, "action", "menu"), data_get(data, "children", <<>>),
             data_get(data, "keywords", <<>>), data_get(data, "db_query", <<>>),
             data_get(data, "tool", ""), data_get(data, "info_text", <<>>))

\* MenuNode.to_dict: tool and info_text are written where they are set
to_dict(node) ==
    LET result == [id |-> node.id, title |-> node.title, description |-> node.description,
                   action |-> node.action, children |-> node.children,
                   keywords |-> node.keywords, db_query |-> node.db_query]
        with_tool == IF node.tool # "" THEN result @@ ("tool" :> node.tool) ELSE result
    IN  IF node.info_text # <<>> THEN with_tool @@ ("info_text" :> node.info_text)
        ELSE with_tool

\* the loop over config.get("nodes", []): it ends at the first record
\* from_dict raises on, with the nodes before it in self.nodes
RECURSIVE load_nodes(_, _)
load_nodes(nodes, datas) ==
    IF datas = <<>> \/ from_dict_fails(Head(datas)) THEN nodes
    ELSE load_nodes(dict_set(nodes, from_dict(Head(datas))), Tail(datas))

nodes_fail(datas) == \E i \in 1..Len(datas) : from_dict_fails(datas[i])

\* the root of a file that was read: the id the file names, "root" where it
\* names none, and the first node where no node has that id
file_root(config, nodes) ==
    IF data_get(config, "root_node_id", root) \in NodeIds(nodes) \/ nodes = <<>>
    THEN data_get(config, "root_node_id", root)
    ELSE nodes[1].id

\* node.children = list(dict.fromkeys(node.children)), for every node
clean_children(nodes) ==
    [i \in 1..Len(nodes) |-> [nodes[i] EXCEPT !.children = Dedup(@)]]

\* MenuTree.save_menu: an error of writing is logged and nothing else
save_menu(self, disk) ==
    IF disk.writable
    THEN [disk EXCEPT !.file =
            [kind |-> "json",
             config |-> [root_node_id |-> self.root_node_id,
                         nodes |-> [i \in 1..Len(self.nodes) |-> to_dict(self.nodes[i])]]]]
    ELSE disk

\* Configuration.__init__: int(os.getenv("DB_PORT", "3306"))
configuration_raises(env) == env.DB_PORT # Unset /\ IntRaises(env.DB_PORT)

RECURSIVE add_nodes(_, _)
add_nodes(nodes, new) ==
    IF new = <<>> THEN nodes ELSE add_nodes(dict_set(nodes, Head(new)), Tail(new))

\* the object, the disk and whether an exception left the constructor
Constructed(self, disk, raised) == [self |-> self, disk |-> disk, raised |-> raised]

\* MenuTree._create_default_menu: the ten nodes go into self.nodes, which is
\* not emptied before
create_default_menu(self, disk, env) ==
    IF configuration_raises(env) THEN Constructed(self, disk, TRUE)
    ELSE Constructed([nodes |-> add_nodes(self.nodes, DefaultMenuNodes), root_node_id |-> root],
                     save_menu([nodes |-> add_nodes(self.nodes, DefaultMenuNodes),
                                root_node_id |-> root], disk),
                     FALSE)

EmptyTree == [nodes |-> <<>>, root_node_id |-> NoneId]

\* the try block of load_menu on a file that holds a configuration
load_config(config, nodes, disk, env) ==
    IF nodes_fail(data_get(config, "nodes", <<>>))
    THEN create_default_menu([nodes |-> nodes, root_node_id |-> NoneId], disk, env)
    ELSE IF nodes = <<>>
    THEN create_default_menu([nodes |-> nodes, root_node_id |-> file_root(config, nodes)],
                             disk, env)
    ELSE Constructed([nodes |-> clean_children(nodes),
                      root_node_id |-> file_root(config, nodes)], disk, FALSE)

\* MenuTree.__init__ with MenuTree.load_menu
load_menu(disk, env) ==
    IF disk.file.kind # "json" THEN create_default_menu(EmptyTree, disk, env)
    ELSE load_config(disk.file.config,
                     load_nodes(<<>>, data_get(disk.file.config, "nodes", <<>>)), disk, env)

InitLoad ==
    /\ load_call \in {[op |-> "new", file |-> file,
                       disk |-> [file |-> file, writable |-> writable],
                       env |-> [DB_PORT |-> port], self |-> EmptyTree, raised |-> FALSE] :
                            file \in MenuFiles, writable \in BOOLEAN, port \in DbPorts}
    /\ menu_tree = [nodes |-> <<>>, root_node_id |-> NoneId]
    /\ menu_call = NoCall
    /\ sim_call = NoSimCall
    /\ route_call = NoRouteCall
    /\ chat = NoChat
    /\ sessions = Idle
    /\ norm_call = Idle
    /\ learn_call = Idle
    /\ classifier = Idle
    /\ llm_call = Idle
    /\ http_call = Idle

\* MenuTree()
LoadMenu ==
    /\ load_call.op = "new"
    /\ load_call' = [load_call EXCEPT
            !.op = "loaded",
            !.self = load_menu(load_call.disk, load_call.env).self,
            !.disk = load_menu(load_call.disk, load_call.env).disk,
            !.raised = load_menu(load_call.disk, load_call.env).raised]
    /\ UNCHANGED <<menu_vars, sim_vars, router_vars, chat_vars, norm_call, learn_call,
                   classifier, llm_call, http_call>>

NextLoad == LoadMenu

SpecLoad == InitLoad /\ [][NextLoad]_vars

\* the failures of loading the claim names: no file, no JSON, a node record
\* from_dict fails on, no node that could be the root
LoadFails(file) ==
    \/ file.kind \in {"missing", "text"}
    \/ /\ file.kind = "json"
       /\ \/ nodes_fail(data_get(file.config, "nodes", <<>>))
          \/ load_nodes(<<>>, data_get(file.config, "nodes", <<>>)) = <<>>

DefaultTree == [nodes |-> DefaultMenuNodes, root_node_id |-> root]

\* C20: where loading the menu file fails, the tree is exactly the default
\* tree whatever the file held, the file on a writable disk holds that tree
\* afterwards, and no exception leaves the constructor.
C20_FailedLoadGivesDefaultTree ==
    (load_call.op = "loaded" /\ LoadFails(load_call.file)) =>
        /\ ~ load_call.raised
        /\ load_call.self = DefaultTree
        /\ load_call.disk.writable =>
            load_call.disk.file = save_menu(DefaultTree, load_call.disk).file

\* the file held a good record of the node "extra" and then one without a
\* title: the tree holds the node of the file before the ten default nodes,
\* and that is what was saved
C20_FileNodeSurvives ==
    /\ load_call.op = "loaded"
    /\ load_call.file = [kind |-> "json",
                         config |-> [nodes |-> <<[id |-> extra, title |-> <<"E","x","t","r","a">>],
                                                 [id |-> extra]>>]]
    /\ load_call.env.DB_PORT = Unset
    /\ load_call.disk.writable
    /\ ~ load_call.raised
    /\ Len(load_call.self.nodes) = Len(DefaultMenuNodes) + 1
    /\ load_call.self.nodes[1].id = extra
    /\ load_call.self.root_node_id = root
    /\ Len(load_call.disk.file.config.nodes) = Len(DefaultMenuNodes) + 1
-----------------------------------------------------------------------------
(* Enhancing a menu tree: the tables the generator may find, and the calls   *)
(* of enhance_menu_tree made on one tree.  The tree is menu_tree;           *)
(* menu_call tells of the calls made on it.                                *)

MaxEnhance == 2
MaxTablesPerCategory == 2

\* the tables analyze_database_structure may find
GeneratorTables ==
    {[db_name |-> <<"d","a","t","a","l","a","k","e","_","e","c","o","n","o","m","i","c","o">>, table_name |-> <<"i","p","c">>],
     [db_name |-> <<"d","w","h","_","e","c","o","n","o","m","i","c","o">>, table_name |-> <<"i","p","c">>],
     [db_name |-> <<"d","w","h","_","s","o","c","i","o">>, table_name |-> <<"p","u","e","s","t","o","s","_","d","e","_","t","r","a","b","a","j","o">>]}

\* its results: the tables of each category, the categories in the order of
\* the dict
CategorizedTables ==
    {<<[category |-> inflacion, tables |-> a], [category |-> empleo, tables |-> b]>> :
        a \in SeqsUpTo(GeneratorTables, MaxTablesPerCategory),
        b \in SeqsUpTo(GeneratorTables, MaxTablesPerCategory)}

\* the trees enhanced: the default menu, and one that has no node "socio"
EnhancedTrees ==
    {[nodes |-> DefaultMenuNodes, root_node_id |-> root],
     [nodes |-> SelectSeq(DefaultMenuNodes, LAMBDA n : n.id # socio), root_node_id |-> root]}

InitEnhance ==
    /\ menu_tree \in EnhancedTrees
    /\ menu_call \in {[op |-> "new", db_client |-> db_client, tables |-> tables,
                       before |-> EmptyTree, times |-> 0,
                       disk |-> [file |-> [kind |-> "missing"], writable |-> TRUE]] :
                            db_client \in BOOLEAN, tables \in CategorizedTables}
    /\ menu_call.db_client \/ menu_call.tables = <<[category |-> inflacion, tables |-> <<>>],
                                                   [category |-> empleo, tables |-> <<>>]>>
    /\ sim_call = NoSimCall
    /\ route_call = NoRouteCall
    /\ chat = NoChat
    /\ sessions = Idle
    /\ norm_call = Idle
    /\ learn_call = Idle
    /\ classifier = Idle
    /\ llm_call = Idle
    /\ load_call = Idle
    /\ http_call = Idle

\* menu_generator.enhance_menu_tree(menu_tree), with the save that ends it
EnhanceMenuTree ==
    /\ menu_call.op \in {"new", "enhanced"}
    /\ menu_call.times < MaxEnhance
    /\ menu_tree' = enhance_menu_tree(menu_call.db_client, menu_call.tables, menu_tree)
    /\ menu_call' = [menu_call EXCEPT
            !.op = "enhanced", !.before = menu_tree, !.times = @ + 1,
            !.disk = IF menu_call.db_client
                     THEN save_menu(enhance_menu_tree(menu_call.db_client, menu_call.tables,
                                                      menu_tree), @)
                     ELSE @]
    /\ UNCHANGED <<sim_vars, router_vars, chat_vars, unit_vars>>

NextEnhance == EnhanceMenuTree

SpecEnhance == InitEnhance /\ [][NextEnhance]_vars

IsPrefixOf(s, t) == Len(s) <= Len(t) /\ SubSeq(t, 1, Len(s)) = s

\* the ids of the generated submenus whose tables lie in a database of the kind
generated_ids(categorized_tables, kind) ==
    {db_node_id(categorized_tables[i].category, categorized_tables[i].tables[j].db_name) :
        <<i, j>> \in {p \in (1..Len(categorized_tables)) \X (1..MaxTablesPerCategory) :
                        /\ p[2] <= Len(categorized_tables[p[1]].tables)
                        /\ Contains(categorized_tables[p[1]].tables[p[2]].db_name, kind)}}

\* the children of the parent after the call are its children before it,
\* followed by generated ids that are new to it, each once
Appended(before, after, parent_id, ids) ==
    get_node(before, parent_id) # NoNode =>
        /\ IsPrefixOf(get_node(before, parent_id).children, get_node(after, parent_id).children)
        /\ \A i \in 1..Len(get_node(after, parent_id).children) :
            \A j \in 1..Len(get_node(after, parent_id).children) :
                (i # j /\ Len(get_node(before, parent_id).children) < j) =>
                    get_node(after, parent_id).children[i]
                        # get_node(after, parent_id).children[j]
        /\ ids \subseteq {get_node(after, parent_id).children[i] :
                            i \in 1..Len(get_node(after, parent_id).children)}
        /\ \A j \in (Len(get_node(before, parent_id).children) + 1)
                        ..Len(get_node(after, parent_id).children) :
                get_node(after, parent_id).children[j] \in ids

\* C21: enhancing appends the ids of the generated submenus to the children of
\* "economico" and "socio" after the children they had, each id once and none
\* that was a child already, and the children they had stay as they were; a
\* second enhancement with the same generated nodes changes no node and no
\* list of children.
C21_EnhanceAppendsOnce ==
    (menu_call.op = "enhanced" /\ menu_call.db_client) =>
        /\ Appended(menu_call.before, menu_tree, economico,
                    generated_ids(menu_call.tables, <<"e","c","o","n","o","m","i","c","o">>))
        /\ Appended(menu_call.before, menu_tree, socio,
                    generated_ids(menu_call.tables, <<"s","o","c","i","o">>))
        /\ menu_call.times >= 2 => menu_tree = menu_call.before

\* the tree was enhanced twice with tables of both kinds: "economico" has got
\* two more children than the default menu gives it, "socio" one
C21_Witness ==
    /\ menu_call.op = "enhanced"
    /\ menu_call.db_client
    /\ menu_call.times = 2
    /\ get_node(menu_tree, economico).children =
            <<<<"d","a","t","a","l","a","k","e","_","e","c","o","n","o","m","i","c","o">>, <<"d","w","h","_","e","c","o","n","o","m","i","c","o">>, <<"c","a","t","_","i","n","f","l","a","c","i","o","n","_","d","a","t","a","l","a",
                  "k","e","_","e","c","o","n","o","m","i","c","o">>,
              <<"c","a","t","_","i","n","f","l","a","c","i","o","n","_","d","w","h","_","e","c",
                    "o","n","o","m","i","c","o">>>>
    /\ get_node(menu_tree, socio).children =
            <<<<"d","a","t","a","l","a","k","e","_","s","o","c","i","o">>, <<"d","w","h","_","s","o","c","i","o">>, <<"c","a","t","_","e","m","p","l","e","o","_","d","w","h","_","s","o","c","i","o">>>>
-----------------------------------------------------------------------------
(* The process with several sessions.  menu_states and chat_messages are     *)
(* dicts of the process keyed by session id; a turn is a task of the event   *)
(* loop, and tasks interleave where a task awaits: the first turn of a       *)
(* session awaits server.list_tools() of each MCP server before it seeds the *)
(* history.  The turns drawn end in the menu stages, before the later awaits. *)

MaxRequests == 3
MaxWaiting == 2

SessionNames == {<<"a">>, <<"b">>}

\* a number, and a message that names a submenu of "economico" and, with a word
\* of the domain, passes the classifier: it reaches the menu intent of api.py
\* 1028-1044
SessionInputs == {<<"1">>, <<"d","a","t","a","l","a","k","e"," ","c","a","n","a","s","t","a">>}

\* the process: a database client, no OpenAI client, no learning, and the
\* tables the menu generator finds
SessionsEnv ==
    [db |-> NoDb, openai |-> FALSE, db_client |-> TRUE, learning |-> FALSE,
     tables |-> <<[category |-> inflacion,
                   tables |-> <<[db_name |-> <<"d","a","t","a","l","a","k","e","_","e","c","o","n","o","m","i","c","o">>, table_name |-> <<"i","p","c">>]>>]>>]

NoSession == [op |-> "none"]

\* api.py 357-377: menu_states[session_id] holds a MenuTree() of its own,
\* read from the menu file, no position and no history
menu_state_of(loaded) ==
    [Started(SessionsEnv, loaded.self, [rows |-> <<>>, down |-> FALSE]) EXCEPT
        !.s.node = NoneId, !.s.history = <<>>, !.s.messages = <<>>]

\* server.list_tools() of an MCP server: the task waits for the answer of
\* the server, and other tasks run meanwhile
list_tools_suspends(servers) == servers

\* api.py 505-514: the history is the system message, the position the root
seeded(c) ==
    [c EXCEPT !.s.messages = <<system_message>>, !.s.node = root, !.s.history = <<root>>]

InitSessions ==
    /\ sessions \in {[op |-> "serving", servers |-> servers,
                      disk |-> [file |-> [kind |-> "missing"], writable |-> TRUE],
                      state |-> [id \in SessionNames |-> NoSession],
                      waiting |-> {}, requests |-> 0, seedings |-> 0, replaced |-> FALSE] :
                            servers \in BOOLEAN}
    /\ menu_tree = [nodes |-> <<>>, root_node_id |-> NoneId]
    /\ menu_call = NoCall
    /\ sim_call = NoSimCall
    /\ route_call = NoRouteCall
    /\ chat = NoChat
    /\ norm_call = Idle
    /\ learn_call = Idle
    /\ classifier = Idle
    /\ llm_call = Idle
    /\ load_call = Idle
    /\ http_call = Idle

\* the process after the session has answered: an enhancement of the turn
\* saved the tree of the session to the menu file
answered(p, session_id, c, replied) ==
    [p EXCEPT !.state[session_id] = replied,
              !.disk = IF replied.s.menu_enhanced /\ ~ c.s.menu_enhanced
                       THEN save_menu(replied.s.menu_tree, @) ELSE @]

\* api.py 517-1267 on a session that has its history
handled(p, session_id, c, message) ==
    {answered(p, session_id, c, replied) : replied \in chat_endpoint(c, message)}

\* api.py 380-514 after the await: the history and the position are set,
\* whatever they hold
seeded_process(p, session_id) ==
    [p EXCEPT !.seedings = @ + 1,
              !.replaced = @ \/ p.state[session_id].s.messages # <<>>]

\* the session of the id: the one menu_states holds, or a new one
session_for(p, session_id) ==
    IF p.state[session_id] = NoSession
    THEN menu_state_of(load_menu(p.disk, [DB_PORT |-> Unset]))
    ELSE p.state[session_id]

\* the process once menu_states holds the session
with_session(p, session_id) ==
    IF p.state[session_id] = NoSession
    THEN [p EXCEPT !.state[session_id] = session_for(p, session_id),
                   !.disk = load_menu(p.disk, [DB_PORT |-> Unset]).disk,
                   !.requests = @ + 1]
    ELSE [p EXCEPT !.requests = @ + 1]

\* a request arrives: the task runs until it awaits or answers
begun(p, session_id, message) ==
    IF session_for(p, session_id).s.messages # <<>>
    THEN handled(with_session(p, session_id), session_id, session_for(p, session_id), message)
    ELSE IF list_tools_suspends(p.servers)
    THEN {[with_session(p, session_id) EXCEPT
            !.waiting = @ \cup {[request |-> p.requests + 1, session_id |-> session_id,
                                 message |-> message]}]}
    ELSE handled(seeded_process(with_session(p, session_id), session_id), session_id,
                 seeded(session_for(p, session_id)), message)

\* POST /api/chat: chat_endpoint up to its first await, or to its answer
BeginTurn ==
    /\ sessions.op = "serving"
    /\ sessions.requests < MaxRequests
    /\ Cardinality(sessions.waiting) < MaxWaiting
    /\ \E session_id \in SessionNames, message \in SessionInputs :
            sessions' \in begun(sessions, session_id, message)
    /\ UNCHANGED <<menu_vars, sim_vars, router_vars, chat, unit_vars>>

\* the task of a first turn goes on after list_tools: it seeds the session
\* and answers
ResumeTurn ==
    /\ sessions.op = "serving"
    /\ \E task \in sessions.waiting :
            sessions' \in handled(seeded_process([sessions EXCEPT !.waiting = @ \ {task}],
                                                 task.session_id),
                                  task.session_id, seeded(sessions.state[task.session_id]),
                                  task.message)
    /\ UNCHANGED <<menu_vars, sim_vars, router_vars, chat, unit_vars>>

NextSessions == BeginTurn \/ ResumeTurn

SpecSessions == InitSessions /\ [][NextSessions]_vars


Created(id) == sessions.state[id] # NoSession

\* C22: the menu tree is one object of the process: once a turn of some
\* session has enhanced it, every session that exists, also one created
\* before, holds the enhanced tree.
C22_EnhancedTreeIsShared ==
    sessions.op = "serving" =>
        \A a \in SessionNames, b \in SessionNames :
            (Created(a) /\ Created(b) /\ sessions.state[a].s.menu_enhanced) =>
                sessions.state[b].s.menu_tree = sessions.state[a].s.menu_tree

\* session b was created first, session a enhanced its tree, and then b
\* chose "1" at the root: b was shown the menu of "economico" without the
\* generated option, which the tree of a holds
C22_OldSessionSeesOldTree ==
    /\ sessions.op = "serving"
    /\ Created(<<"a">>) /\ Created(<<"b">>)
    /\ sessions.state[<<"a">>].s.menu_enhanced
    /\ ~ sessions.state[<<"b">>].s.menu_enhanced
    /\ sessions.state[<<"b">>].op = "turn"
    /\ sessions.state[<<"b">>].raw = <<"1">>
    /\ sessions.state[<<"b">>].s.node = economico
    /\ sessions.state[<<"b">>].last.response
            = format_menu(DefaultTree, economico)
    /\ sessions.state[<<"b">>].last.response
            # format_menu(sessions.state[<<"a">>].s.menu_tree, economico)
    /\ sessions.disk.file = save_menu(sessions.state[<<"a">>].s.menu_tree, sessions.disk).file

\* C27: concurrent first turns of one new session seed the session once, and
\* no seeding replaces a history or a position that a turn has updated.
C27_SeededOnce ==
    sessions.op = "serving" => ~ sessions.replaced

\* two first turns of session a waited for list_tools together; the first
\* to go on chose "1" and moved to "economico" with two messages added; the
\* second then seeded the session again and answered from the root
C27_SecondSeedingReplaces ==
    /\ sessions.op = "serving"
    /\ sessions.servers
    /\ sessions.replaced
    /\ sessions.seedings = 2
    /\ sessions.waiting = {}
    /\ ~ Created(<<"b">>)
    /\ sessions.state[<<"a">>].raw = <<"1">>
    /\ sessions.state[<<"a">>].before.node = root
    /\ sessions.state[<<"a">>].before.messages = <<system_message>>
    /\ Len(sessions.state[<<"a">>].s.messages) = 3
-----------------------------------------------------------------------------
(* Claims on the turns of one session (SpecChat).                            *)

\* the history after the turn is the history before it with messages added
HistoryKept ==
    /\ Len(chat.before.messages) > 1
    /\ IsPrefixOf(chat.before.messages, chat.s.messages)

\* C23: a turn for which a category is detected that differs from the one
\* detected last in the session clears the history down to the system
\* message before it adds its own messages.
C23_TopicChangeClearsHistory ==
    (/\ chat.op = "turn"
     /\ chat.last.detected # NoTool
     /\ chat.before.topic # NoTool
     /\ chat.last.detected # chat.before.topic) => ~ HistoryKept

\* the category detected changed, and the history of the topic before is
\* still there, with the messages of the turn after it
C23_HistoryOfOldTopicKept ==
    /\ chat.op = "turn"
    /\ chat.last.detected # NoTool
    /\ chat.before.topic # NoTool
    /\ chat.last.detected # chat.before.topic
    /\ chat.before.category = NoTool
    /\ HistoryKept
    /\ Len(chat.s.messages) = Len(chat.before.messages) + 2

-----------------------------------------------------------------------------
(* Navigation in depth: one session in a process whose database has a table  *)
(* of the inflation category, so that the menu of 'Datos Económicos' gets a  *)
(* submenu, and turns enough to enter it and to leave it.                    *)

MaxNavTurns == 3

NavInputs == {<<"d","a","t","a","l","a","k","e"," ","c","a","n","a","s","t","a">>, <<"1">>, <<"2">>, <<"3">>, <<"b","a","c","k">>, <<"a","t","r","a'","s">>, <<"a","n","t","e","r","i","o","r">>}

InitNavigate ==
    /\ chat = Started(SessionsEnv, DefaultTree, [rows |-> <<>>, down |-> FALSE])
    /\ sessions = Idle
    /\ menu_tree = [nodes |-> <<>>, root_node_id |-> NoneId]
    /\ menu_call = NoCall
    /\ sim_call = NoSimCall
    /\ route_call = NoRouteCall
    /\ norm_call = Idle
    /\ learn_call = Idle
    /\ classifier = Idle
    /\ llm_call = Idle
    /\ load_call = Idle
    /\ http_call = Idle

\* one message of the user is answered
NavigateTurn ==
    /\ chat.op \in {"started", "turn"}
    /\ chat.turns < MaxNavTurns
    /\ \E message \in NavInputs : chat' \in chat_endpoint(chat, message)
    /\ UNCHANGED <<menu_vars, sim_vars, router_vars, unit_vars, sessions>>

NextNavigate == NavigateTurn

SpecNavigate == InitNavigate /\ [][NextNavigate]_vars

\* the message is one of the two words
SaidBack == Strip(Lower(chat.raw)) \in {<<"a","t","r","a'","s">>, <<"b","a","c","k">>}

\* the menu that was current immediately before the present one
previous_menu(history) ==
    IF Len(history) >= 2 THEN history[Len(history) - 1] ELSE root

\* C24: after "atrás" or "back" the session is at the menu that was current
\* before the one it was at (the entry of the navigation history before the
\* last), and at the root only when there is none.
C24_BackGoesToPreviousMenu ==
    (chat.op = "turn" /\ SaidBack) => chat.s.node = previous_menu(chat.before.history)

\* the word was said two menus below the root, and the session is at the root
C24_BackLandsOnRoot ==
    /\ chat.op = "turn"
    /\ SaidBack
    /\ Len(chat.before.history) = 3
    /\ chat.before.node = chat.before.history[3]
    /\ previous_menu(chat.before.history) = economico
    /\ chat.s.node = root
    /\ chat.s.history = <<root>>

\* the message is a number, and the reply calls it no valid option
ToldInvalid ==
    /\ chat.op = "turn"
    /\ isdigit(Strip(chat.raw))
    /\ ~ IntRaises(Strip(chat.raw))
    /\ chat.last.response = invalid_msg(int(Strip(chat.raw)))

\* the children of the node the session was at when the message came
children_before == get_node(chat.before.menu_tree, chat.before.node).children

\* C28: "Opción N no válida" is the reply only to a number outside 1..k,
\* k being the number of children of the current node: a number that
\* designates a child selects it, whatever its action.
C28_InvalidOnlyOutOfRange ==
    ToldInvalid => int(Strip(chat.raw)) \notin 1..Len(children_before)

\* the number designates a child whose action is "query", and is called no
\* valid option; the session stays where it was
C28_QueryChildToldInvalid ==
    /\ ToldInvalid
    /\ int(Strip(chat.raw)) \in 1..Len(children_before)
    /\ get_child_by_number(chat.before.menu_tree, chat.before.node,
                           int(Strip(chat.raw))).action = "query"
    /\ chat.s.node = chat.before.node

-----------------------------------------------------------------------------
(* Claims on the similarity of two questions (SpecSim).                      *)

\* C25: for every text, the similarity score of the text with itself is at
\* least 0.9.
C25_SelfSimilarityAtLeastNineTenths ==
    (sim_call.op = "_calculate_similarity" /\ sim_call.text1 = sim_call.text2)
        => ~ FracLess(sim_call.score, <<9, 10>>)

\* a text with a content word and no key term, compared with itself, scores
\* 0.5 + 0.2 = 0.7
C25_SelfSimilaritySevenTenths ==
    /\ sim_call.op = "_calculate_similarity"
    /\ sim_call.text1 = sim_call.text2
    /\ KeyTermsOf(sim_call.text1) = {}
    /\ Words(_normalize_text(sim_call.text1)) \ STOP_WORDS # {}
    /\ ~ FracLess(sim_call.score, <<7, 10>>)
    /\ ~ FracLess(<<7, 10>>, sim_call.score)

-----------------------------------------------------------------------------
(* The numbers of a menu and the children they select (SpecMenu).            *)

\* the children format_menu numbers for node_id, where it renders them
listed_children(self, node_id) ==
    IF get_node(self, node_id) = NoNode THEN <<>>
    ELSE IF FormatRaises(self, get_node(self, node_id)) THEN <<>>
    ELSE valid_children(self, get_node(self, node_id))

\* format_menu(node_id) lists a child as item number: the text has its line
ListsItem(self, node_id, number) ==
    /\ number \in 1..Len(listed_children(self, node_id))
    /\ Contains(format_menu(self, node_id),
                Str(number) \o <<".", " ">>
                    \o get_node(self, listed_children(self, node_id)[number]).title)

\* C26: for every menu node, the child format_menu lists as item n is the
\* child get_child_by_number returns for n.
C26_NumberSelectsListedChild ==
    (/\ menu_call.op = "get_child_by_number"
     /\ ListsItem(menu_tree, menu_call.node_id, menu_call.number))
    => menu_call.node
         = get_node(menu_tree, listed_children(menu_tree, menu_call.node_id)[menu_call.number])

\* a node lists a dangling or repeated id before another child: the number
\* the menu shows for that child selects none, or a different one
C26_NumberSelectsOther ==
    /\ menu_call.op = "get_child_by_number"
    /\ ListsItem(menu_tree, menu_call.node_id, menu_call.number)
    /\ menu_call.node
         # get_node(menu_tree, listed_children(menu_tree, menu_call.node_id)[menu_call.number])
    /\ Len(get_node(menu_tree, menu_call.node_id).children)
         > Len(listed_children(menu_tree, menu_call.node_id))

-----------------------------------------------------------------------------
(* Questions asked again: one session of a process with the learned-answer  *)
(* memory, a model that answers, and a memory that is empty or holds an      *)
(* answer learned from an earlier chat (with the quality score of the chat). *)

MaxRelearnTurns == 3

\* the answer a model gave when the stored question was learned
FirstAnswer ==
    <<"E","l"," ","I","P","C"," ","e","s"," ","e","l"," ","i'","n","d","i","c","e"," ",
          "q","u","e"," ","c","a","l","c","u","l","a"," ","e","l"," ","I","N","D","E","C",
          " ","p","a","r","a"," ","s","e","g","u","i","r"," ","l","o","s"," ","p","r","e",
          "c","i","o","s"," ","a","l"," ","c","o","n","s","u","m","i","d","o","r",";"," ",
          "s","e"," ","p","u","b","l","i","c","a"," ","c","a","d","a"," ","m","e","s"," ",
          "y"," ","c","o","n"," ","e'","l"," ","s","e"," ","m","i","d","e"," ","l","a"," ",
          "i","n","f","l","a","c","i","o'","n",".">>

RelearnInputs == {<<"q","u","e'"," ","e","s"," ","e","l"," ","I","P","C">>, <<"<iq>","Q","u","e'"," ","e","s"," ","e","l"," ","I","P","C","?">>, <<"d","a","m","e"," ","e","l"," ","i","p","c">>}

RelearnEnvs ==
    {[db |-> db, openai |-> TRUE, db_client |-> TRUE, learning |-> TRUE, tables |-> NoTables] :
        db \in ChatDatabases}

RelearnMemories ==
    {[rows |-> <<>>, down |-> FALSE],
     [rows |-> <<MemoryRow(1, StoredQuestion, FirstAnswer, <<"c","a","t","_","p","r","e","c","i","o","s">>, TRUE, <<4, 5>>, 1)>>,
      down |-> FALSE]}

InitRelearn ==
    /\ chat \in {Started(env, [nodes |-> SampleMenuNodes, root_node_id |-> root], memory) :
                    env \in RelearnEnvs, memory \in RelearnMemories}
    /\ sessions = Idle
    /\ menu_tree = [nodes |-> <<>>, root_node_id |-> NoneId]
    /\ menu_call = NoCall
    /\ sim_call = NoSimCall
    /\ route_call = NoRouteCall
    /\ norm_call = Idle
    /\ learn_call = Idle
    /\ classifier = Idle
    /\ llm_call = Idle
    /\ load_call = Idle
    /\ http_call = Idle

\* one message of the user is answered
RelearnTurn ==
    /\ chat.op \in {"started", "turn"}
    /\ chat.turns < MaxRelearnTurns
    /\ \E message \in RelearnInputs : chat' \in chat_endpoint(chat, message)
    /\ UNCHANGED <<menu_vars, sim_vars, router_vars, unit_vars, sessions>>

NextRelearn == RelearnTurn

SpecRelearn == InitRelearn /\ [][NextRelearn]_vars

\* the rows stored before the turn that hold the question of the turn
rows_of_question ==
    {i \in 1..Len(chat.before.memory.rows) :
        chat.before.memory.rows[i].normalized_question = _normalize_text(Strip(chat.raw))}

\* row i is after the turn what it was before it, but for its use counter
OnlyCounted(i) ==
    /\ chat.s.memory.rows[i].response = chat.before.memory.rows[i].response
    /\ chat.s.memory.rows[i].quality_score = chat.before.memory.rows[i].quality_score
    /\ chat.s.memory.rows[i].question = chat.before.memory.rows[i].question
    /\ chat.s.memory.rows[i].use_count >= chat.before.memory.rows[i].use_count

\* the rows stored after the turn that hold the question of the turn
stored_for_question ==
    {i \in 1..Len(chat.s.memory.rows) :
        chat.s.memory.rows[i].normalized_question = _normalize_text(Strip(chat.raw))}

\* the memory after save_to_memory is called once more for the question of
\* the turn, with an answer
saved_again(response) ==
    save_to_memory(NewTurn(chat.s, Strip(chat.raw)), chat.env, Strip(chat.raw), response,
                   <<"c","a","t","_","p","r","e","c","i","o","s">>, TRUE).s.memory

\* the save added no row and changed no response: it counted one use
CountedOnly(rows, saved) ==
    /\ Len(saved) = Len(rows)
    /\ \A i \in 1..Len(rows) : /\ saved[i].response = rows[i].response
                               /\ saved[i].quality_score = rows[i].quality_score
    /\ \E i \in 1..Len(rows) :
            /\ saved[i].use_count = rows[i].use_count + 1
            /\ \A j \in 1..Len(rows) : j # i => saved[j] = rows[j]

-----------------------------------------------------------------------------
(* learn called again and again on one table, one call at a time, on a       *)
(* database that answers.                                                    *)

MaxLearns == 3

\* questions that normalize to the same text, that are near to each other,
\* that share no word, and the empty one
RepeatedQuestions ==
    {<<"v","a","l","o","r">>, <<"<ix>","V","a","l","o","r","!">>, <<"i","p","c"," ","m","e","s">>, <<"<iq>","I","P","C"," ","m","e","s","?">>, <<"e","l"," ","i","p","c"," ","m","e","s">>, <<>>}

InitLearnMany ==
    /\ learn_call = [op |-> "ready", memory |-> [rows |-> <<>>, down |-> FALSE], calls |-> 0,
                     question |-> <<>>, inserted |-> FALSE]
    /\ menu_tree = [nodes |-> <<>>, root_node_id |-> NoneId]
    /\ menu_call = NoCall
    /\ sim_call = NoSimCall
    /\ route_call = NoRouteCall
    /\ chat = NoChat
    /\ sessions = Idle
    /\ norm_call = Idle
    /\ classifier = Idle
    /\ llm_call = Idle
    /\ load_call = Idle
    /\ http_call = Idle

\* the call record after learn returned
learned(call, question, memory) ==
    [op |-> "learn", memory |-> memory, calls |-> call.calls + 1, question |-> question,
     inserted |-> Len(memory.rows) > Len(call.memory.rows)]

\* one more call of learn, after the one before has returned
LearnAgain ==
    /\ learn_call.op \in {"ready", "learn"}
    /\ learn_call.calls < MaxLearns
    /\ \E question \in RepeatedQuestions, quality_score \in {<<4, 5>>, <<9, 10>>} :
            learn_call' = learned(learn_call, question,
                                  learn(learn_call.memory, question, NewAnswer,
                                        <<"c","a","t","_","p","r","e","c","i","o","s">>, FALSE, quality_score))
    /\ UNCHANGED <<menu_vars, sim_vars, router_vars, chat_vars, norm_call, classifier,
                   llm_call, load_call, http_call>>

NextLearnMany == LearnAgain

SpecLearnMany == InitLearnMany /\ [][NextLearnMany]_vars

\* C30: after any sequence of learn calls made one at a time on a database
\* without faults, no two stored rows have the same normalized_question.
C30_NormalizedQuestionsDiffer ==
    learn_call.op = "learn" =>
        \A i, j \in 1..Len(learn_call.memory.rows) :
            i # j => learn_call.memory.rows[i].normalized_question
                        # learn_call.memory.rows[j].normalized_question

\* a question was learned, then one that differs from it and normalizes to
\* the same text: the second call found the row and inserted none
C30_Witness ==
    /\ learn_call.op = "learn"
    /\ learn_call.calls = 3
    /\ Len(learn_call.memory.rows) = 2
    /\ ~ learn_call.inserted
    /\ \E i \in 1..2 :
        /\ learn_call.memory.rows[i].question # learn_call.question
        /\ learn_call.memory.rows[i].normalized_question = _normalize_text(learn_call.question)
        /\ learn_call.memory.rows[i].use_count >= 2
=============================================================================
